---- MODULE Spec2Model ----
(***************************************************************************)
(* A model of the myOCT Thorlabs glue layer:                               *)
(*   - thorlabs_imager_oct.py      scanner facade, stage facade, yOCTCloseAll *)
(*   - thorlabs_imager_stage.py    stage facade                             *)
(*   - thorlabs_imager_cleanup.py  cleanup coordinator                      *)
(*   - thorlabs_stage_server.py / thorlabs_stage_subprocess.py              *)
(*   - yOCTScan3DVolume and _split_spectral_files_by_bscan (three copies)   *)
(* Vendor SDK calls are not modelled beyond their outcome: every call that *)
(* can raise either returns or raises, chosen nondeterministically.        *)
(***************************************************************************)
EXTENDS Integers, Sequences, FiniteSets, TLC

(* ------------------------------------------------------------------ *)
(* Bounds of the model                                                 *)
(* ------------------------------------------------------------------ *)

\* how many of the three axes 'x','y','z' the hardware model drives
NumAxes == 2

AxisNames == <<"x", "y", "z">>

Min(a, b) == IF a < b THEN a ELSE b

\* the keys of _stage_serial_numbers
Axes == { AxisNames[i] : i \in 1..Min(NumAxes, 3) }

\* axis arguments a caller may pass: valid, upper-case, and not an axis
AxisArgs == Axes \cup {"X", "q"}

\* str.lower() on the axis arguments of the model
Lower(s) == IF s = "X" THEN "x" ELSE s

\* how many calls may start while another call is still running, between two
\* moments at which no call is running
MaxOverlap == 2

\* the two threads that may run shutdown calls concurrently
Threads == {1, 2}

\* the thread that runs every call that is not a shutdown call
MainThread == CHOOSE t \in Threads : \A u \in Threads : t <= u

(* ------------------------------------------------------------------ *)
(* Python dict with insertion order (popitem is LIFO)                  *)
(* ------------------------------------------------------------------ *)

HasKey(d, k) == \E i \in 1..Len(d) : d[i].axis = k

GetItem(d, k) == d[CHOOSE i \in 1..Len(d) : d[i].axis = k].dev

SetItem(d, k, v) ==
    IF HasKey(d, k)
    THEN [i \in 1..Len(d) |-> IF d[i].axis = k THEN [axis |-> k, dev |-> v] ELSE d[i]]
    ELSE Append(d, [axis |-> k, dev |-> v])

DelItem(d, k) == SelectSeq(d, LAMBDA e : e.axis # k)

LastItem(d) == d[Len(d)]

ButLast(d) == SubSeq(d, 1, Len(d) - 1)

(* ------------------------------------------------------------------ *)
(* A KST201 device object: how often disconnect() and close() were     *)
(* called on it (saturating at 2)                                      *)
(* ------------------------------------------------------------------ *)

NewDevice == [nDisc |-> 0, nClose |-> 0]

Bump(n) == IF n < 2 THEN n + 1 ELSE 2

Disconnected(dv) == [dv EXCEPT !.nDisc = Bump(dv.nDisc)]

Closed(dv) == [dv EXCEPT !.nClose = Bump(dv.nClose)]

NoItem == [axis |-> "none", dev |-> NewDevice]

VARIABLES
    \* thorlabs_imager_oct module globals
    facade,                 \* the stage facade the script imports: "oct" or "stage"
    oct_system,             \* 0 = None, else an OCTSystem object
    device,                 \* 0 = None, else the system's device
    probe,
    processing,
    scanner_initialized,
    oct_stage_handles,      \* thorlabs_imager_oct._stage_handles
    shutdown_lock,          \* the RLock: [owner, count], owner 0 = free
    \* thorlabs_imager_stage module globals
    stg_stage_handles,      \* thorlabs_imager_stage._stage_handles
    \* XASDK._oct_xa_started (class attribute shared by both facades)
    oct_xa_started,
    \* the threads running shutdown calls
    pc,                     \* where each thread is
    ret,                    \* where a nested yOCTScannerClose returns to
    popped,                 \* the (axis, dev) a thread got from popitem()
    \* observation of the calls (not program state)
    log,                    \* calls started and device calls made since no call was running
    result,                 \* how each thread's last call ended
    lastCall,               \* the last call that completed: [op, axis]
    second,                 \* the call a thread repeats right after it completed, or "none"
    overlap,                \* calls started while another call was running
    \* the scanner module in use and the output folder of yOCTScan3DVolume
    scan_module,            \* "oct", "oct_only" or "lib"
    outDir,                 \* what outputFolder holds on disk
    failed,                 \* observation: the step of the last scan that raised, and what
    split_input,            \* observation: the folder and argument the last split was given
    \* thorlabs_stage_subprocess (client) and thorlabs_stage_server (server)
    server_process,         \* _server_process is not None
    cl_pc,                  \* where the client is in _send_command / _stop_server
    cl_cmd,                 \* the command _send_command was called with
    cl_sent,                \* observation: command lines written to this server process
    cl_result,              \* observation: what the last _send_command read back
    launched,               \* observation: server processes started so far
    srv_pc,                 \* where the server process is in main()
    srv_cmd,                \* the command line the server is handling
    srv_handles,            \* the server's _stage_handles (its keys)
    srv_xa,                 \* the server's _xa_initialized
    stdin,                  \* lines written by the client, not yet read by the server
    stdin_open,             \* the client still holds the write end of stdin
    stdout,                 \* lines written by the server, not yet read by the client
    srv_read,               \* observation: command lines this server process has read
    srv_out,                \* observation: every line this server process has written
    srv_calls,              \* observation: the SDK calls the last handler made
    \* the probe .ini file and what _read_probe_ini / _apply_probe_config_to_probe did
    ini_file,               \* the file at ini_path: [exists, lines]
    probe_config,           \* what _read_probe_ini returned or raised: [res, config]
    probe_calls,            \* observation: the setter calls of the last apply, and how it ended
    \* Header.xml and the folder _fix_header_xml_for_matlab is given, and the header it leaves
    header_in,
    header_out

hwVars == <<facade, oct_system, device, probe, processing, scanner_initialized,
            oct_stage_handles, shutdown_lock, stg_stage_handles, oct_xa_started,
            pc, ret, popped, log, result, lastCall, second, overlap>>

\* the scanner globals of thorlabs_imager_oct
scannerVars == <<oct_system, device, probe, processing, scanner_initialized>>

\* what a caller can observe of the resources held
resourceState == <<oct_system, device, probe, processing, scanner_initialized,
                   oct_stage_handles, stg_stage_handles, oct_xa_started>>

threadVars == <<pc, ret, popped, second>>

fsVars == <<outDir, failed, split_input>>

serverVars == <<server_process, cl_pc, cl_cmd, cl_sent, cl_result, launched, srv_pc, srv_cmd,
                srv_handles, srv_xa, stdin, stdin_open, stdout, srv_read, srv_out, srv_calls>>

\* what the text helpers (_read_probe_ini, _apply_probe_config_to_probe,
\* _fix_header_xml_for_matlab) read and leave
textVars == <<ini_file, probe_config, probe_calls, header_in, header_out>>

\* what a shutdown call of thorlabs_imager_oct never touches
elsewhere == <<facade, scan_module, textVars, fsVars, serverVars>>

AllIdle == \A t \in Threads : pc[t] = "idle"

FreeLock == [owner |-> 0, count |-> 0]

InitHardware ==
    /\ oct_system = 0
    /\ device = 0
    /\ probe = 0
    /\ processing = 0
    /\ scanner_initialized = FALSE
    /\ oct_stage_handles = <<>>
    /\ shutdown_lock = FreeLock
    /\ stg_stage_handles = <<>>
    /\ oct_xa_started = FALSE
    /\ pc = [t \in Threads |-> "idle"]
    /\ ret = [t \in Threads |-> "idle"]
    /\ popped = [t \in Threads |-> NoItem]
    /\ log = <<>>
    /\ result = [t \in Threads |-> "none"]
    /\ lastCall = [op |-> "none", axis |-> "none"]
    /\ second = [t \in Threads |-> "none"]
    /\ overlap = 0

\* a call that runs to completion on the main thread while no other call runs
Completes(op, axis, res, events) ==
    /\ AllIdle
    /\ log' = <<[thr |-> MainThread, kind |-> "call", name |-> op, axis |-> axis]>> \o events
    /\ result' = [result EXCEPT ![MainThread] = res]
    /\ lastCall' = [op |-> op, axis |-> axis]
    /\ overlap' = 0
    /\ second' = [second EXCEPT ![MainThread] = IF lastCall.op = op THEN op ELSE "none"]
    /\ UNCHANGED <<pc, ret, popped, shutdown_lock, facade, scan_module, textVars, serverVars>>

\* a call of the hardware facades: it leaves the output folder alone
HwCompletes(op, axis, res, events) ==
    /\ Completes(op, axis, res, events)
    /\ UNCHANGED fsVars

\* a device call, or the release of the scanner objects, made by thread t
Ev(t, e) == [thr |-> t, kind |-> "step", name |-> e, axis |-> "none"]

\* a call made by thread t on the device of `axis`
EvOn(t, e, axis) == [thr |-> t, kind |-> "step", name |-> e, axis |-> axis]

\* thread t starts call op
Mark(t, op) == [thr |-> t, kind |-> "call", name |-> op, axis |-> "none"]

\* the device calls in `names`, as issued by the main thread; an os.chdir is a
\* statement of the call, not a call on the SDK
MainEvents(names) ==
    [i \in 1..Len(names) |->
        IF names[i] \in {"chdir(dll_path)", "chdir(original_cwd)"}
        THEN [thr |-> MainThread, kind |-> "stmt", name |-> names[i], axis |-> "none"]
        ELSE Ev(MainThread, names[i])]

(* ------------------------------------------------------------------ *)
(* thorlabs_imager_oct: scanner                                        *)
(* ------------------------------------------------------------------ *)

\* the argument a call of the main thread was given, by what matters of it: a
\* probe path that exists or not, a target inside or outside the travel range
Arg(name, axis) == [thr |-> MainThread, kind |-> "arg", name |-> name, axis |-> axis]

\* a newly constructed OCTSystem object (0 is None)
NewId(cur) == 1

\* where yOCTScannerInit can raise once the probe file was found
ScannerInitFailPoints ==
    {"none", "OCTSystem_no_response", "OCTSystem_other", "dev",
     "read_probe_ini", "create_default", "from_device"}

\* the body of yOCTScannerClose run to completion: the calls it issues
ScannerCloseEvents(dv) ==
    (IF dv # 0 THEN <<"acquisition.stop">> ELSE <<>>) \o <<"scanner_release">>

\* a re-initialisation that creates the new OCTSystem and then closes the old one
ScannerInitTrace_createsFirst(preclose, dv, stopRaises) ==
    <<Ev(MainThread, "OCTSystem()")>>
    \o (IF preclose THEN MainEvents(ScannerCloseEvents(dv)) ELSE <<>>)

\* what yOCTScannerInit does once the probe file was found: the pre-close of an
\* existing scanner, whose acquisition.stop() may raise inside yOCTScannerClose,
\* and then OCTSystem()
ScannerInitTrace(preclose, dv, stopRaises) ==
    (IF preclose /\ dv # 0
     THEN <<Ev(MainThread, "acquisition.stop")>>
          \o (IF stopRaises
              THEN <<[thr |-> MainThread, kind |-> "stmt", name |-> "stop_raised",
                      axis |-> "none"]>>
              ELSE <<>>)
     ELSE <<>>)
    \o (IF preclose THEN <<Ev(MainThread, "scanner_release")>> ELSE <<>>)
    \o <<Ev(MainThread, "OCTSystem()")>>

\* a file check that lets a missing file through
ProbeFileMissing_ignored(pathExists) == FALSE

\* if not os.path.exists(octProbePath): raise FileNotFoundError
ProbeFileMissing(pathExists) == ~pathExists

yOCTScannerInit ==
    /\ scan_module = "oct"
    /\ \E pathExists \in BOOLEAN, failAt \in ScannerInitFailPoints, stopRaises \in BOOLEAN :
        LET preclose == scanner_initialized \/ oct_system # 0
            dev0     == IF preclose THEN 0 ELSE device
            probe0   == IF preclose THEN 0 ELSE probe
            proc0    == IF preclose THEN 0 ELSE processing
            sys0     == IF preclose THEN 0 ELSE oct_system
            init0    == IF preclose THEN FALSE ELSE scanner_initialized
            n        == NewId(oct_system)
            arg      == Arg(IF pathExists THEN "probe_found" ELSE "probe_missing", "none")
        IN
        IF ProbeFileMissing(pathExists)
        THEN /\ UNCHANGED <<scannerVars, oct_stage_handles, stg_stage_handles, oct_xa_started>>
             /\ HwCompletes("yOCTScannerInit", "none", "FileNotFoundError",
                            <<arg>>)
        ELSE
        /\ oct_system' = IF failAt \in {"OCTSystem_no_response", "OCTSystem_other"}
                          THEN sys0 ELSE n
        /\ device' = IF failAt \in {"OCTSystem_no_response", "OCTSystem_other", "dev"}
                      THEN dev0 ELSE n
        /\ probe' = IF failAt \in {"none", "from_device"} THEN n ELSE probe0
        /\ processing' = IF failAt = "none" THEN n ELSE proc0
        /\ scanner_initialized' = IF failAt = "none" THEN TRUE ELSE init0
        /\ UNCHANGED <<oct_stage_handles, stg_stage_handles, oct_xa_started>>
        /\ HwCompletes("yOCTScannerInit", "none",
                     CASE failAt = "none" -> "ok"
                       [] failAt = "OCTSystem_no_response" -> "RuntimeError"
                       [] failAt = "read_probe_ini" -> "ValueError"
                       [] OTHER -> "SDKError",
                     <<arg>> \o ScannerInitTrace(preclose, device, stopRaises))

\* a thread enters a shutdown call: yOCTScannerClose or yOCTCloseAll
Enter(t, op, first) ==
    /\ pc[t] = "idle"
    /\ scan_module = "oct"
    /\ t = MainThread \/ facade = "oct"
    /\ AllIdle \/ overlap < MaxOverlap
    /\ overlap' = IF AllIdle THEN 0 ELSE overlap + 1
    /\ pc' = [pc EXCEPT ![t] = first]
    /\ ret' = [ret EXCEPT ![t] = "idle"]
    /\ second' = [second EXCEPT ![t] = IF AllIdle /\ lastCall.op = op THEN op ELSE "none"]
    /\ log' = IF AllIdle THEN <<Mark(t, op)>> ELSE Append(log, Mark(t, op))
    /\ result' = [result EXCEPT ![t] = "running"]
    /\ UNCHANGED <<resourceState, shutdown_lock, popped, lastCall, elsewhere>>

\* an acquire that does not wait for the owner to release
Acquire_noWait(t) ==
    shutdown_lock' = [owner |-> t, count |-> shutdown_lock.count + 1]

\* threading.RLock.acquire by thread t
Acquire(t) ==
    /\ shutdown_lock.owner \in {0, t}
    /\ shutdown_lock' = [owner |-> t, count |-> shutdown_lock.count + 1]

\* threading.RLock.release by thread t
Released(t) ==
    IF shutdown_lock.count <= 1
    THEN FreeLock
    ELSE [owner |-> t, count |-> shutdown_lock.count - 1]

\* the call of thread t returns to its caller, or to the Python caller
Return(t, op, to) ==
    /\ pc' = [pc EXCEPT ![t] = to]
    /\ UNCHANGED <<elsewhere, overlap>>
    /\ IF to = "idle"
       THEN /\ result' = [result EXCEPT ![t] = "ok"]
            /\ lastCall' = [op |-> op, axis |-> "none"]
       ELSE UNCHANGED <<result, lastCall>>

Call_yOCTScannerClose(t) == Enter(t, "yOCTScannerClose", "sc_lock")

\* with _shutdown_lock:
yOCTScannerClose_lock(t) ==
    /\ pc[t] = "sc_lock"
    /\ Acquire(t)
    /\ pc' = [pc EXCEPT ![t] = "sc_stop"]
    /\ UNCHANGED <<resourceState, ret, popped, second, log, result, lastCall, elsewhere, overlap>>

\* if _device is not None: _device.acquisition.stop()   (errors swallowed)
yOCTScannerClose_stop(t) ==
    /\ pc[t] = "sc_stop"
    /\ log' = IF device # 0 THEN Append(log, Ev(t, "acquisition.stop")) ELSE log
    /\ pc' = [pc EXCEPT ![t] = "sc_release"]
    /\ UNCHANGED <<resourceState, shutdown_lock, ret, popped, second, result, lastCall, elsewhere, overlap>>

\* a release that clears the flag and keeps the objects
yOCTScannerClose_release_flagOnly(t) ==
    /\ pc[t] = "sc_release"
    /\ scanner_initialized' = FALSE
    /\ log' = Append(log, Ev(t, "scanner_release"))
    /\ shutdown_lock' = Released(t)
    /\ Return(t, "yOCTScannerClose", ret[t])
    /\ UNCHANGED <<oct_system, device, probe, processing, oct_stage_handles,
                   stg_stage_handles, oct_xa_started, ret, popped, second>>

\* del ...; all globals = None; _scanner_initialized = False; gc; leave the lock
yOCTScannerClose_release(t) ==
    /\ pc[t] = "sc_release"
    /\ oct_system' = 0
    /\ device' = 0
    /\ probe' = 0
    /\ processing' = 0
    /\ scanner_initialized' = FALSE
    /\ log' = Append(log, Ev(t, "scanner_release"))
    /\ shutdown_lock' = Released(t)
    /\ Return(t, "yOCTScannerClose", ret[t])
    /\ UNCHANGED <<oct_stage_handles, stg_stage_handles, oct_xa_started,
                   ret, popped, second>>

(* ------------------------------------------------------------------ *)
(* Stage facade: thorlabs_imager_oct and thorlabs_imager_stage         *)
(* ------------------------------------------------------------------ *)

\* where yOCTStageInit_1axis of thorlabs_imager_oct can raise after the axis check
OctStageInitFailPoints == {"none", "startup", "KST201", "enable", "product", "position"}

\* thorlabs_imager_stage also configures velocity and acceleration
StgStageInitFailPoints == OctStageInitFailPoints \cup {"velocity"}

\* the SDK calls of yOCTStageInit_1axis inside its try block, in order
OctStageInitSteps == <<"KST201", "enable", "product", "position">>

StgStageInitSteps == <<"KST201", "enable", "product", "velocity", "position">>

\* the calls made when the call named failAt raises: all up to and including it
StageInitCalls(steps, failAt) ==
    IF \E i \in 1..Len(steps) : steps[i] = failAt
    THEN SubSeq(steps, 1, CHOOSE i \in 1..Len(steps) : steps[i] = failAt)
    ELSE steps

\* a handler that only disconnects the device it created
StageInitCleanup_disconnectOnly(created) ==
    IF created THEN <<"new.disconnect">> ELSE <<>>

\* the except handlers: if device is not None: disconnect(), then close()
StageInitCleanup(created) ==
    IF created THEN <<"new.disconnect", "new.close">> ELSE <<>>

\* a startup whose working directory is restored only when it succeeds
StartupTrace_noFinally(fails) ==
    <<"chdir(dll_path)", "XASDK.startup">>
    \o (IF fails THEN <<>> ELSE <<"chdir(original_cwd)">>)

\* the XA SDK startup block: try: os.chdir(dll_path); try_load_library;
\* XASDK.startup("") finally: os.chdir(original_cwd)
StartupTrace(fails) == <<"chdir(dll_path)", "XASDK.startup", "chdir(original_cwd)">>

\* a facade that starts the SDK before it looks at the axis
StageInit_1axis_startsFirst(h, axes, failAt, steps) ==
    [handles |-> h, xa |-> TRUE, res |-> "ValueError",
     events |-> IF oct_xa_started THEN <<>> ELSE <<"XASDK.startup">>]

\* yOCTStageInit_1axis on handle table h: the table, the SDK flag, the outcome
\* and the device calls it leaves
StageInit_1axis(h, axes, failAt, steps) ==
    LET axis    == Lower(axes)
        startup == IF oct_xa_started THEN <<>> ELSE StartupTrace(failAt = "startup")
    IN
    IF axis \notin Axes
    THEN [handles |-> h, xa |-> oct_xa_started, res |-> "ValueError", events |-> <<>>]
    ELSE IF failAt = "startup"
    THEN [handles |-> h, xa |-> FALSE, res |-> "SDKError", events |-> startup]
    ELSE IF failAt # "none"
    THEN [handles |-> DelItem(h, axis), xa |-> TRUE, res |-> "RuntimeError",
          events |-> startup \o StageInitCalls(steps, failAt)
                     \o StageInitCleanup(failAt # "KST201")]
    ELSE [handles |-> SetItem(h, axis, NewDevice), xa |-> TRUE, res |-> "ok",
          events |-> startup \o StageInitCalls(steps, failAt)]

\* the device call a move makes, by the state of the handle it is made on
MoveEvent(dv) ==
    IF dv.nDisc > 0 \/ dv.nClose > 0 THEN "move_on_closed_handle" ELSE "move_absolute"

\* yOCTStageSetPosition_1axis on handle table h
StageSetPosition_1axis(h, axisArg, moveFails) ==
    LET axis == Lower(axisArg) IN
    IF ~HasKey(h, axis)
    THEN [res |-> "RuntimeError", events |-> <<>>]
    ELSE [res |-> IF moveFails THEN "RuntimeError" ELSE "ok",
          events |-> <<MoveEvent(GetItem(h, axis))>>]

\* what a call did besides SDK calls: an exception caught, a statement run
Stmt(name) == [thr |-> MainThread, kind |-> "stmt", name |-> name, axis |-> "none"]

\* the SDK calls and the statements of a call of the main thread, in order
MainTrace(names) ==
    [i \in 1..Len(names) |->
        IF names[i] \in {"disconnect", "close"} THEN Ev(MainThread, names[i])
        ELSE Stmt(names[i])]

\* a close that gives up when disconnect() raises
StageClose_1axis_stopsAtDisconnect(h, axisArg, discFails, closeFails) ==
    LET axis == Lower(axisArg) IN
    IF ~HasKey(h, axis)
    THEN [handles |-> h, res |-> "ok", events |-> <<>>]
    ELSE IF discFails
    THEN [handles |-> DelItem(h, axis), res |-> "RuntimeError",
          events |-> <<"disconnect", "disconnect_raised", "del_handle",
                       "raise_disconnect_error">>]
    ELSE [handles |-> DelItem(h, axis),
          res |-> IF closeFails THEN "RuntimeError" ELSE "ok",
          events |-> <<"disconnect", "close">>
                     \o (IF closeFails THEN <<"close_raised">> ELSE <<>>)
                     \o <<"del_handle">>
                     \o (IF closeFails THEN <<"raise_close_error">> ELSE <<>>)]

\* yOCTStageClose_1axis on handle table h
StageClose_1axis(h, axisArg, discFails, closeFails) ==
    LET axis == Lower(axisArg) IN
    IF ~HasKey(h, axis)
    THEN [handles |-> h, res |-> "ok", events |-> <<>>]
    ELSE [handles |-> DelItem(h, axis),
          res |-> IF discFails \/ closeFails THEN "RuntimeError" ELSE "ok",
          events |-> <<"disconnect">>
                     \o (IF discFails THEN <<"disconnect_raised">> ELSE <<>>)
                     \o <<"close">>
                     \o (IF closeFails THEN <<"close_raised">> ELSE <<>>)
                     \o <<"del_handle">>
                     \o (IF discFails THEN <<"raise_disconnect_error">>
                         ELSE IF closeFails THEN <<"raise_close_error">>
                         ELSE <<>>)]

oct_yOCTStageInit_1axis ==
    /\ facade = "oct"
    /\ \E axes \in AxisArgs, failAt \in OctStageInitFailPoints :
        LET r == StageInit_1axis(oct_stage_handles, axes, failAt, OctStageInitSteps) IN
        /\ failAt = "startup" => ~oct_xa_started
        /\ oct_stage_handles' = r.handles
        /\ oct_xa_started' = r.xa
        /\ UNCHANGED <<scannerVars, stg_stage_handles>>
        /\ HwCompletes("oct_yOCTStageInit_1axis", Lower(axes), r.res, MainEvents(r.events))

oct_yOCTStageSetPosition_1axis ==
    /\ facade = "oct"
    /\ \E axis \in AxisArgs, target \in {"in_range", "out_of_range"}, moveFails \in BOOLEAN :
        LET r == StageSetPosition_1axis(oct_stage_handles, axis, moveFails) IN
        /\ UNCHANGED resourceState
        /\ HwCompletes("oct_yOCTStageSetPosition_1axis", Lower(axis), r.res,
                       <<Arg(target, Lower(axis))>> \o MainEvents(r.events))

oct_yOCTStageClose_1axis ==
    /\ facade = "oct"
    /\ \E axis \in AxisArgs, discFails \in BOOLEAN, closeFails \in BOOLEAN :
        LET r == StageClose_1axis(oct_stage_handles, axis, discFails, closeFails) IN
        /\ oct_stage_handles' = r.handles
        /\ UNCHANGED <<scannerVars, stg_stage_handles, oct_xa_started>>
        /\ HwCompletes("oct_yOCTStageClose_1axis", Lower(axis), r.res, MainTrace(r.events))

stg_yOCTStageInit_1axis ==
    /\ facade = "stage"
    /\ \E axes \in AxisArgs, failAt \in StgStageInitFailPoints :
        LET r == StageInit_1axis(stg_stage_handles, axes, failAt, StgStageInitSteps) IN
        /\ failAt = "startup" => ~oct_xa_started
        /\ stg_stage_handles' = r.handles
        /\ oct_xa_started' = r.xa
        /\ UNCHANGED <<scannerVars, oct_stage_handles>>
        /\ HwCompletes("stg_yOCTStageInit_1axis", Lower(axes), r.res, MainEvents(r.events))

stg_yOCTStageSetPosition_1axis ==
    /\ facade = "stage"
    /\ \E axis \in AxisArgs, target \in {"in_range", "out_of_range"}, moveFails \in BOOLEAN :
        LET r == StageSetPosition_1axis(stg_stage_handles, axis, moveFails) IN
        /\ UNCHANGED resourceState
        /\ HwCompletes("stg_yOCTStageSetPosition_1axis", Lower(axis), r.res,
                       <<Arg(target, Lower(axis))>> \o MainEvents(r.events))

stg_yOCTStageClose_1axis ==
    /\ facade = "stage"
    /\ \E axis \in AxisArgs, discFails \in BOOLEAN, closeFails \in BOOLEAN :
        LET r == StageClose_1axis(stg_stage_handles, axis, discFails, closeFails) IN
        /\ stg_stage_handles' = r.handles
        /\ UNCHANGED <<scannerVars, oct_stage_handles, oct_xa_started>>
        /\ HwCompletes("stg_yOCTStageClose_1axis", Lower(axis), r.res, MainTrace(r.events))

\* the while loop of yOCTCloseAllStages: popitem, disconnect, close (errors swallowed)
RECURSIVE CloseAllStagesEvents(_)
CloseAllStagesEvents(h) ==
    IF h = <<>> THEN <<>>
    ELSE <<"disconnect", "close">> \o CloseAllStagesEvents(ButLast(h))

\* a loop over the handles that does not remove them
CloseAllStagesTable_keepsHandles(h) == h

\* the table yOCTCloseAllStages leaves: popitem until the dict is empty
RECURSIVE CloseAllStagesTable(_)
CloseAllStagesTable(h) ==
    IF h = <<>> THEN h ELSE CloseAllStagesTable(ButLast(h))

stg_yOCTCloseAllStages ==
    /\ facade = "stage"
    /\ stg_stage_handles' = CloseAllStagesTable(stg_stage_handles)
    /\ UNCHANGED <<scannerVars, oct_stage_handles, oct_xa_started>>
    /\ HwCompletes("stg_yOCTCloseAllStages", "none", "ok",
                 MainEvents(CloseAllStagesEvents(stg_stage_handles)))

(* ------------------------------------------------------------------ *)
(* thorlabs_imager_cleanup.yOCTCloseAll                                *)
(* ------------------------------------------------------------------ *)

\* the functions thorlabs_imager_oct defines at module level
OctModuleNames ==
    {"yOCTScannerInit", "yOCTScannerClose", "yOCTScan3DVolume",
     "yOCTStageInit_1axis", "yOCTStageSetPosition_1axis", "yOCTStageClose_1axis",
     "yOCTCloseAll", "_read_probe_ini", "_apply_probe_config_to_probe",
     "_split_spectral_files_by_bscan", "_fix_header_xml_for_matlab"}

\* from .thorlabs_imager_oct import <names>: ImportError unless all are defined
ImportFromOct(names) == names \subseteq OctModuleNames

\* step 2 of the coordinator: whether yOCTScannerClose() gets called
CleanupClosesScanner ==
    /\ ImportFromOct({"yOCTScannerClose", "yOCTScannerIsInitialized"})
    /\ scanner_initialized

cleanup_yOCTCloseAll ==
    LET closes == CleanupClosesScanner IN
    /\ facade = "stage"
    /\ stg_stage_handles' = CloseAllStagesTable(stg_stage_handles)
    /\ oct_system' = IF closes THEN 0 ELSE oct_system
    /\ device' = IF closes THEN 0 ELSE device
    /\ probe' = IF closes THEN 0 ELSE probe
    /\ processing' = IF closes THEN 0 ELSE processing
    /\ scanner_initialized' = IF closes THEN FALSE ELSE scanner_initialized
    /\ UNCHANGED <<oct_stage_handles, oct_xa_started>>
    /\ HwCompletes("cleanup_yOCTCloseAll", "none", "ok",
                 MainEvents(CloseAllStagesEvents(stg_stage_handles)
                            \o (IF closes THEN ScannerCloseEvents(device) ELSE <<>>)))

(* ------------------------------------------------------------------ *)
(* thorlabs_imager_oct.yOCTCloseAll, step by step                      *)
(* ------------------------------------------------------------------ *)

Call_yOCTCloseAll(t) ==
    /\ facade = "oct"
    /\ Enter(t, "oct_yOCTCloseAll", "ca_lock")

\* with _shutdown_lock:
yOCTCloseAll_lock(t) ==
    /\ pc[t] = "ca_lock"
    /\ Acquire(t)
    /\ pc' = [pc EXCEPT ![t] = "ca_check"]
    /\ UNCHANGED <<resourceState, ret, popped, second, log, result, lastCall, elsewhere, overlap>>

has_resources ==
    \/ oct_stage_handles # <<>>
    \/ scanner_initialized
    \/ oct_system # 0
    \/ oct_xa_started

\* if not has_resources: return
yOCTCloseAll_check(t) ==
    /\ pc[t] = "ca_check"
    /\ IF has_resources
       THEN /\ pc' = [pc EXCEPT ![t] = "ca_loop"]
            /\ UNCHANGED <<shutdown_lock, result, lastCall, elsewhere, overlap>>
       ELSE /\ shutdown_lock' = Released(t)
            /\ Return(t, "oct_yOCTCloseAll", "idle")
    /\ UNCHANGED <<resourceState, ret, popped, second, log>>

\* the stage loop entered only after the scanner was closed
yOCTCloseAll_popitem_scannerFirst(t) ==
    /\ pc[t] = "ca_loop"
    /\ IF scanner_initialized
       THEN /\ pc' = [pc EXCEPT ![t] = "sc_lock"]
            /\ ret' = [ret EXCEPT ![t] = "ca_loop"]
            /\ UNCHANGED <<popped, oct_stage_handles>>
       ELSE IF oct_stage_handles # <<>>
       THEN /\ popped' = [popped EXCEPT ![t] = LastItem(oct_stage_handles)]
            /\ oct_stage_handles' = ButLast(oct_stage_handles)
            /\ pc' = [pc EXCEPT ![t] = "ca_disconnect"]
            /\ UNCHANGED ret
       ELSE /\ pc' = [pc EXCEPT ![t] = "ca_gc"]
            /\ UNCHANGED <<popped, oct_stage_handles, ret>>
    /\ UNCHANGED <<scannerVars, stg_stage_handles, oct_xa_started, shutdown_lock,
                   second, log, result, lastCall, elsewhere, overlap>>

\* while _stage_handles: axis, dev = _stage_handles.popitem()
yOCTCloseAll_popitem(t) ==
    /\ pc[t] = "ca_loop"
    /\ IF oct_stage_handles # <<>>
       THEN /\ popped' = [popped EXCEPT ![t] = LastItem(oct_stage_handles)]
            /\ oct_stage_handles' = ButLast(oct_stage_handles)
            /\ pc' = [pc EXCEPT ![t] = "ca_disconnect"]
       ELSE /\ pc' = [pc EXCEPT ![t] = "ca_scanner"]
            /\ UNCHANGED <<popped, oct_stage_handles>>
    /\ UNCHANGED <<scannerVars, stg_stage_handles, oct_xa_started, shutdown_lock,
                   ret, second, log, result, lastCall, elsewhere, overlap>>

\* try: dev.disconnect()  except Exception: pass
yOCTCloseAll_disconnect(t) ==
    /\ pc[t] = "ca_disconnect"
    /\ popped' = [popped EXCEPT ![t].dev = Disconnected(popped[t].dev)]
    /\ log' = Append(log, EvOn(t, "disconnect", popped[t].axis))
    /\ pc' = [pc EXCEPT ![t] = "ca_close"]
    /\ UNCHANGED <<resourceState, shutdown_lock, ret, second, result, lastCall, elsewhere, overlap>>

\* try: dev.close()  except Exception: pass
yOCTCloseAll_close(t) ==
    /\ pc[t] = "ca_close"
    /\ popped' = [popped EXCEPT ![t].dev = Closed(popped[t].dev)]
    /\ log' = Append(log, EvOn(t, "close", popped[t].axis))
    /\ pc' = [pc EXCEPT ![t] = "ca_loop"]
    /\ UNCHANGED <<resourceState, shutdown_lock, ret, second, result, lastCall, elsewhere, overlap>>

\* whether step 2 calls yOCTScannerClose()
CloseAllClosesScanner == scanner_initialized

\* if _scanner_initialized: yOCTScannerClose()
yOCTCloseAll_scanner(t) ==
    /\ pc[t] = "ca_scanner"
    /\ IF CloseAllClosesScanner
       THEN /\ pc' = [pc EXCEPT ![t] = "sc_lock"]
            /\ ret' = [ret EXCEPT ![t] = "ca_gc"]
       ELSE /\ pc' = [pc EXCEPT ![t] = "ca_gc"]
            /\ UNCHANGED ret
    /\ popped' = [popped EXCEPT ![t] = NoItem]
    /\ UNCHANGED <<resourceState, shutdown_lock, second, log, result, lastCall, elsewhere, overlap>>

\* gc.collect(); leave the lock; return
yOCTCloseAll_gc(t) ==
    /\ pc[t] = "ca_gc"
    /\ shutdown_lock' = Released(t)
    /\ Return(t, "oct_yOCTCloseAll", "idle")
    /\ UNCHANGED <<resourceState, ret, popped, second, log>>

(* ------------------------------------------------------------------ *)
(* thorlabs_imager_oct_only / oct_python_library_operations: scanner   *)
(* ------------------------------------------------------------------ *)

\* the three modules that define yOCTScan3DVolume
ScanModules == {"oct", "oct_only", "lib"}

\* a module global after `del`: reading it raises NameError
Unbound == 0 - 1

OnlyInitFailPoints ==
    {"none", "OCTSystem", "dev", "read_probe_ini", "create_default", "from_device"}

\* a check that lets every call through
AlreadyInitialized_never(flag) == FALSE

\* if _scanner_initialized: raise RuntimeError
AlreadyInitialized(flag) == flag

\* yOCTScannerInit of thorlabs_imager_oct_only and of the imager library
oct_only_yOCTScannerInit ==
    /\ scan_module \in {"oct_only", "lib"}
    /\ \E failAt \in OnlyInitFailPoints :
        IF AlreadyInitialized(scanner_initialized)
        THEN /\ UNCHANGED <<scannerVars, oct_stage_handles, stg_stage_handles, oct_xa_started>>
             /\ HwCompletes("oct_only_yOCTScannerInit", "none", "RuntimeError", <<>>)
        ELSE
        /\ oct_system' = IF failAt = "OCTSystem" THEN oct_system ELSE 1
        /\ device' = IF failAt \in {"OCTSystem", "dev"} THEN device ELSE 1
        /\ probe' = IF failAt \in {"none", "from_device"} THEN 1 ELSE probe
        /\ processing' = IF failAt = "none" THEN 1 ELSE processing
        /\ scanner_initialized' = (failAt = "none")
        /\ UNCHANGED <<oct_stage_handles, stg_stage_handles, oct_xa_started>>
        /\ HwCompletes("oct_only_yOCTScannerInit", "none",
                       IF failAt = "none" THEN "ok" ELSE "SDKError",
                       MainEvents(<<"OCTSystem()">>))

\* `if g is not None: del g`, applied to a global that is bound
Deleted(g) == IF g # 0 THEN Unbound ELSE g

\* yOCTScannerClose of thorlabs_imager_oct_only and of the imager library
oct_only_yOCTScannerClose ==
    /\ scan_module \in {"oct_only", "lib"}
    /\ IF processing = Unbound
       THEN /\ UNCHANGED scannerVars
            /\ HwCompletes("oct_only_yOCTScannerClose", "none", "NameError", <<>>)
       ELSE IF probe = Unbound
       THEN /\ processing' = Deleted(processing)
            /\ UNCHANGED <<probe, device, oct_system, scanner_initialized>>
            /\ HwCompletes("oct_only_yOCTScannerClose", "none", "NameError", <<>>)
       ELSE IF device = Unbound
       THEN /\ processing' = Deleted(processing)
            /\ probe' = Deleted(probe)
            /\ UNCHANGED <<device, oct_system, scanner_initialized>>
            /\ HwCompletes("oct_only_yOCTScannerClose", "none", "NameError", <<>>)
       ELSE IF oct_system = Unbound
       THEN /\ processing' = Deleted(processing)
            /\ probe' = Deleted(probe)
            /\ device' = Deleted(device)
            /\ UNCHANGED <<oct_system, scanner_initialized>>
            /\ HwCompletes("oct_only_yOCTScannerClose", "none", "NameError", <<>>)
       ELSE /\ processing' = Deleted(processing)
            /\ probe' = Deleted(probe)
            /\ device' = Deleted(device)
            /\ oct_system' = Deleted(oct_system)
            /\ scanner_initialized' = FALSE
            /\ HwCompletes("oct_only_yOCTScannerClose", "none", "ok", <<>>)
    /\ UNCHANGED <<oct_stage_handles, stg_stage_handles, oct_xa_started>>

(* ------------------------------------------------------------------ *)
(* The output folder                                                   *)
(* ------------------------------------------------------------------ *)

\* the largest number of B-scans a header or a caller asks for
MaxBScans == 3

\* the longest Spectral0.data blob, in bytes
MaxBlobLen == 4

Bytes == {0, 1}

RECURSIVE SeqsUpTo(_)
\* all byte strings of length n or less
SeqsUpTo(n) ==
    IF n = 0 THEN {<<>>}
    ELSE LET shorter == SeqsUpTo(n - 1) IN
         shorter \cup {Append(q, c) : q \in {r \in shorter : Len(r) = n - 1}, c \in Bytes}

Blobs == SeqsUpTo(MaxBlobLen)

\* Header.xml: absent, not parseable, or with the dimensions the split reads:
\* raw = the Raw DataFile element carries SizeZ and SizeX,
\* sizeY = the text of Image/SizePixel/SizeY (-1: no such element or no text)
NoHeader == [present |-> FALSE, wellFormed |-> FALSE, raw |-> FALSE, sizeY |-> 0 - 1]

CorruptHeader == [present |-> TRUE, wellFormed |-> FALSE, raw |-> FALSE, sizeY |-> 0 - 1]

Headers ==
    {CorruptHeader} \cup
    [present : {TRUE}, wellFormed : {TRUE}, raw : BOOLEAN, sizeY : (0 - 1)..MaxBScans]

\* file names in outputFolder/data
Sp(i) == <<"Spectral", i>>

Temp == <<"Spectral_temp", 0>>

Chirp == <<"Chirp", 0>>

Exists(files, name) == \E f \in files : f.name = name

ReadFile(files, name) == (CHOOSE f \in files : f.name = name).data

WriteFile(files, name, data) ==
    {f \in files : f.name # name} \cup {[name |-> name, data |-> data]}

RemoveFile(files, name) == {f \in files : f.name # name}

\* os.rename onto a name that may exist (the caller decides whether it may)
RenameFile(files, from, to) ==
    WriteFile(RemoveFile(files, from), to, ReadFile(files, from))

NoFolder ==
    [exists |-> FALSE, by |-> "none", header |-> NoHeader, data |-> FALSE,
     files |-> {}, archive |-> FALSE]

\* os.makedirs(outputFolder) on a path that does not exist
NewFolder == [NoFolder EXCEPT !.exists = TRUE, !.by = "scan"]

\* a folder somebody else put there, with a file of theirs in it
UserFolder ==
    [NoFolder EXCEPT !.exists = TRUE, !.by = "user",
                     !.files = {[name |-> <<"notes", 0>>, data |-> <<1>>]}]

NoFailure == [step |-> "none", exc |-> "none"]

NoSplit == [dir |-> NoFolder, nYPixels |-> 0]

InitFolder ==
    /\ outDir = NoFolder
    /\ failed = NoFailure
    /\ split_input = NoSplit

(* ------------------------------------------------------------------ *)
(* _split_spectral_files_by_bscan                                      *)
(* ------------------------------------------------------------------ *)

\* the number of B-scans: Image/SizePixel/SizeY of the header, else nYPixels
SizeYOf(header, nYPixels) == IF header.sizeY >= 0 THEN header.sizeY ELSE nYPixels

RECURSIVE WriteBScans(_, _, _, _, _)
\* for bscan_idx in range(idx, upTo): write concat_data[start:end] to Spectral<idx>.data
WriteBScans(files, blob, per, idx, upTo) ==
    IF idx >= upTo THEN files
    ELSE WriteBScans(WriteFile(files, Sp(idx), SubSeq(blob, idx * per + 1, (idx + 1) * per)),
                     blob, per, idx + 1, upTo)

\* where the file operations of the split can raise
SplitFailPoints == {"none", "rename", "write", "remove"}

\* thorlabs_imager_oct / thorlabs_imager_oct_only: rename to Spectral_temp.data,
\* write the pieces, remove the temporary file; every exception is caught.
\* overwrite = os.rename replaces an existing target (POSIX) or raises (Windows)
split_by_rename(dir, nYPixels, failAt, failIdx, overwrite) ==
    LET h       == dir.header
        size_y  == SizeYOf(h, nYPixels)
        blob    == ReadFile(dir.files, Sp(0))
        per     == Len(blob) \div size_y
        renamed == RenameFile(dir.files, Sp(0), Temp)
        failsAtWrite == failAt = "write" /\ failIdx < size_y
        written == WriteBScans(renamed, blob, per, 0, IF failsAtWrite THEN failIdx ELSE size_y)
    IN
    IF ~h.present \/ ~Exists(dir.files, Sp(0))
    THEN [dir |-> dir, res |-> "ok", raised |-> FALSE, exc |-> "none"]
    ELSE IF ~h.wellFormed
    THEN [dir |-> dir, res |-> "UnboundLocalError", raised |-> TRUE, exc |-> "ParseError"]
    ELSE IF ~h.raw \/ size_y = 0
    THEN [dir |-> dir, res |-> "ok", raised |-> FALSE, exc |-> "none"]
    ELSE IF failAt = "rename"
    THEN [dir |-> dir, res |-> "ok", raised |-> TRUE, exc |-> "OSError"]
    ELSE IF failsAtWrite \/ failAt = "remove"
    THEN IF Exists(written, Sp(0)) /\ ~overwrite
         THEN [dir |-> [dir EXCEPT !.files = written], res |-> "FileExistsError",
               raised |-> TRUE, exc |-> "OSError"]
         ELSE [dir |-> [dir EXCEPT !.files = RenameFile(written, Temp, Sp(0))], res |-> "ok",
               raised |-> TRUE, exc |-> "OSError"]
    ELSE [dir |-> [dir EXCEPT !.files = RemoveFile(written, Temp)], res |-> "ok",
          raised |-> FALSE, exc |-> "none"]

\* oct_python_library_operations: read Spectral0.data, write the pieces, then
\* os.remove(spectral_concat_path); exceptions propagate
split_in_place(dir, nYPixels, failAt, failIdx) ==
    LET h       == dir.header
        size_y  == SizeYOf(h, nYPixels)
        blob    == ReadFile(dir.files, Sp(0))
        per     == Len(blob) \div size_y
        failsAtWrite == failAt = "write" /\ failIdx < size_y
        written == WriteBScans(dir.files, blob, per, 0, IF failsAtWrite THEN failIdx ELSE size_y)
    IN
    IF ~h.present \/ ~Exists(dir.files, Sp(0))
    THEN [dir |-> dir, res |-> "FileNotFoundError", raised |-> TRUE, exc |-> "FileNotFoundError"]
    ELSE IF ~h.wellFormed \/ ~h.raw
    THEN [dir |-> dir, res |-> "ValueError", raised |-> TRUE, exc |-> "ValueError"]
    ELSE IF size_y = 0
    THEN [dir |-> dir, res |-> "ZeroDivisionError", raised |-> TRUE, exc |-> "ZeroDivisionError"]
    ELSE IF Len(blob) % size_y # 0
    THEN [dir |-> dir, res |-> "ValueError", raised |-> TRUE, exc |-> "ValueError"]
    ELSE IF failsAtWrite \/ failAt = "remove"
    THEN [dir |-> [dir EXCEPT !.files = written], res |-> "OSError",
          raised |-> TRUE, exc |-> "OSError"]
    ELSE [dir |-> [dir EXCEPT !.files = RemoveFile(written, Sp(0))], res |-> "ok",
          raised |-> FALSE, exc |-> "none"]

\* _split_spectral_files_by_bscan of module m
split_spectral_files_by_bscan(m, dir, nYPixels, failAt, failIdx, overwrite) ==
    IF m = "lib"
    THEN split_in_place(dir, nYPixels, failAt, failIdx)
    ELSE split_by_rename(dir, nYPixels, failAt, failIdx, overwrite)

\* a direct call of _split_spectral_files_by_bscan on the folder
call_split_spectral_files_by_bscan ==
    /\ lastCall.op = "none"
    /\ \E nYPixels \in 0..MaxBScans, failAt \in SplitFailPoints :
       \E failIdx \in (IF failAt = "write" THEN 0..(MaxBScans - 1) ELSE {0}),
          overwrite \in (IF failAt \in {"write", "remove"} THEN BOOLEAN ELSE {TRUE}) :
        LET r == split_spectral_files_by_bscan(scan_module, outDir, nYPixels,
                                               failAt, failIdx, overwrite) IN
        /\ outDir' = r.dir
        /\ split_input' = [dir |-> outDir, nYPixels |-> nYPixels]
        /\ failed' = [step |-> IF r.raised THEN "split" ELSE "none", exc |-> r.exc]
        /\ Completes("split_spectral_files_by_bscan", "none", r.res, <<>>)
    /\ UNCHANGED resourceState

\* the folders a split is called on: a header or none, a Spectral0.data or none
SplitFolders ==
    {[NewFolder EXCEPT !.header = h, !.data = TRUE, !.files = fs] :
        h \in Headers \cup {NoHeader},
        fs \in {{}} \cup {{[name |-> Sp(0), data |-> b]} : b \in Blobs}}

(* ------------------------------------------------------------------ *)
(* yOCTScan3DVolume                                                    *)
(* ------------------------------------------------------------------ *)

\* _fix_header_xml_for_matlab (thorlabs_imager_oct, thorlabs_imager_oct_only):
\* SizeY becomes the number of Spectral*.data files; never raises
fix_header_xml_for_matlab(dir, size_y) ==
    LET n == Cardinality({f \in dir.files : f.name[1] \in {"Spectral", "Spectral_temp"}})
    IN
    IF ~dir.header.present \/ ~dir.header.wellFormed \/ dir.header.sizeY < 0
    THEN dir
    ELSE [dir EXCEPT !.header.sizeY = IF n > 0 THEN n ELSE size_y]

\* the checks before the folder is created
ScanPrecondition_noFolderCheck(initialized, dir) ==
    IF ~initialized THEN "RuntimeError" ELSE "ok"

ScanPrecondition(initialized, dir) ==
    IF ~initialized THEN "RuntimeError"
    ELSE IF dir.exists THEN "FileExistsError"
    ELSE "ok"

\* the steps of the try block that can raise before the split
ScanFailPoints ==
    {"none", "pattern", "start", "get_raw_data", "stop", "save", "extract", "remove_archive"}

ScanSteps ==
    <<"pattern", "start", "get_raw_data", "stop", "save", "extract", "remove_archive">>

StepIndex(step) == CHOOSE i \in 1..Len(ScanSteps) : ScanSteps[i] = step

\* the SDK calls made up to and including the step that raised
SdkCalls == <<"create_volume_pattern", "acquisition.start", "acquisition.get_raw_data",
              "acquisition.stop", "OCTFile.save">>

CallsUpTo(failAt) ==
    IF failAt = "none" THEN SdkCalls
    ELSE SubSeq(SdkCalls, 1, Min(StepIndex(failAt), Len(SdkCalls)))

\* what a failing step raises
Raises(step) ==
    IF step \in {"extract", "remove_archive"} THEN "OSError" ELSE "SDKError"

\* what the SDK saves as data\Spectral0.data in the model: one byte per B-scan
ScanBlob(nYPixels) == [i \in 1..nYPixels |-> i % 2]

\* the Header.xml found after extraction: unreadable, or with or without the
\* dimensions, SizeY being nYPixels when it is there
ScanHeaders(nYPixels) ==
    {CorruptHeader} \cup
    [present : {TRUE}, wellFormed : {TRUE}, raw : BOOLEAN, sizeY : {0 - 1, nYPixels}]

\* the body of yOCTScan3DVolume of module m once the preconditions hold
Scan3DVolume(m, dir, nYPixels, failAt, header, blob, splitFail, failIdx, overwrite, rmtreeFails) ==
    LET base      == IF dir.exists THEN dir ELSE NewFolder
        saved     == [base EXCEPT !.archive = TRUE]
        extracted == [saved EXCEPT !.header = header, !.data = TRUE,
                                   !.files = WriteFile(WriteFile(base.files, Sp(0), blob),
                                                       Chirp, <<0>>)]
        unzipped  == [extracted EXCEPT !.archive = FALSE]
        sp        == split_spectral_files_by_bscan(m, unzipped, nYPixels,
                                                   splitFail, failIdx, overwrite)
        fixed     == IF m = "lib" THEN sp.dir ELSE fix_header_xml_for_matlab(sp.dir, nYPixels)
        partial   == CASE failAt = "none" -> sp.dir
                       [] failAt = "extract" -> saved
                       [] failAt = "remove_archive" -> extracted
                       [] OTHER -> base
        exc       == IF failAt # "none" THEN Raises(failAt) ELSE sp.res
        step      == IF failAt # "none" THEN failAt
                     ELSE IF sp.raised THEN "split" ELSE "none"
        stopAgain == IF m = "oct" /\ failAt \in {"get_raw_data", "stop"}
                     THEN <<"acquisition.stop">> ELSE <<>>
    IN
    IF failAt # "none" \/ sp.res # "ok"
    THEN [dir    |-> IF rmtreeFails THEN partial ELSE NoFolder,
          res    |-> IF rmtreeFails /\ m # "oct" THEN "RmtreeError" ELSE exc,
          events |-> CallsUpTo(failAt) \o stopAgain,
          failed |-> [step |-> step, exc |-> exc]]
    ELSE [dir    |-> fixed,
          res    |-> "ok",
          events |-> SdkCalls,
          failed |-> [step |-> step, exc |-> sp.exc]]

yOCTScan3DVolume ==
    LET pre == ScanPrecondition(scanner_initialized, outDir) IN
    /\ IF pre # "ok"
       THEN /\ UNCHANGED outDir
            /\ failed' = [step |-> "precondition", exc |-> pre]
            /\ Completes("yOCTScan3DVolume", "none", pre, <<>>)
       ELSE IF scan_module = "oct" /\ outDir.exists
       THEN \* os.makedirs(outputFolder) without exist_ok
            /\ UNCHANGED outDir
            /\ failed' = [step |-> "makedirs", exc |-> "FileExistsError"]
            /\ Completes("yOCTScan3DVolume", "none", "FileExistsError", <<>>)
       ELSE \E nYPixels \in 1..MaxBScans, rmtreeFails \in BOOLEAN, failAt \in ScanFailPoints :
            \E header \in ScanHeaders(nYPixels), blob \in {ScanBlob(nYPixels)} :
            \E splitFail \in (IF failAt = "none" THEN SplitFailPoints ELSE {"none"}) :
            \E failIdx \in (IF splitFail = "write" THEN 0..(MaxBScans - 1) ELSE {0}),
               overwrite \in (IF splitFail \in {"write", "remove"} THEN BOOLEAN ELSE {TRUE}) :
              LET r == Scan3DVolume(scan_module, outDir, nYPixels, failAt, header, blob,
                                    splitFail, failIdx, overwrite, rmtreeFails) IN
              /\ outDir' = r.dir
              /\ failed' = r.failed
              /\ Completes("yOCTScan3DVolume", "none", r.res, MainEvents(r.events))
    /\ UNCHANGED <<resourceState, split_input>>

\* somebody creates outputFolder before a scan
env_makeFolder ==
    /\ ~outDir.exists
    /\ outDir' = UserFolder
    /\ UNCHANGED <<resourceState, failed, split_input>>
    /\ Completes("env_makeFolder", "none", "ok", <<>>)

\* the caller removes outputFolder between scans
env_removeFolder ==
    /\ outDir.exists
    /\ outDir' = NoFolder
    /\ UNCHANGED <<resourceState, failed, split_input>>
    /\ Completes("env_removeFolder", "none", "ok", <<>>)

(* ------------------------------------------------------------------ *)
(* The stage server and its client                                     *)
(* ------------------------------------------------------------------ *)

\* command lines the client writes to one server process with _send_command
MaxCommands == 3

\* server processes the client starts
MaxLaunches == 2

\* the commands _send_command is called with; "home" is none the server knows
ClientCommands == {"init", "move", "close", "home"}

\* a move target: away from the current position, at it, or outside [0, 13] mm
Targets == {"far", "at_target", "out_of_range"}

NoCommand == [k |-> 0, command |-> "none", axis |-> "none", target |-> "none"]

NoResult == [k |-> 0, for |-> 0, status |-> "none"]

InitServer ==
    /\ server_process = FALSE
    /\ cl_pc = "idle"
    /\ cl_cmd = NoCommand
    /\ cl_sent = 0
    /\ cl_result = NoResult
    /\ launched = 0
    /\ srv_pc = "none"
    /\ srv_cmd = NoCommand
    /\ srv_handles = {}
    /\ srv_xa = FALSE
    /\ stdin = <<>>
    /\ stdin_open = TRUE
    /\ stdout = <<>>
    /\ srv_read = 0
    /\ srv_out = <<>>
    /\ srv_calls = <<>>

\* a response printed twice
send_response_twice(status, k) ==
    <<[status |-> status, for |-> k], [status |-> status, for |-> k]>>

\* send_response: one line on stdout (k: the command it answers, 0 for 'ready')
send_response(status, k) == <<[status |-> status, for |-> k]>>

ServerFailPoints == {"none", "startup", "device", "position", "move", "disconnect"}

\* handle_init: the table, the SDK flag, the reply status, what it raised and
\* the SDK calls it made
handle_init(h, xa, axisArg, failAt) ==
    LET axis    == Lower(axisArg)
        startup == IF xa THEN <<>> ELSE <<"XASDK.startup">>
        \* except Exception: close and drop the handle the table holds for the axis
        handler == IF axis \in h THEN <<"old.close">> ELSE <<>>
    IN
    IF axis \notin Axes
    THEN [handles |-> h, xa |-> xa, status |-> "error", exc |-> "ValueError",
          calls |-> <<>>]
    ELSE IF failAt = "startup" /\ ~xa
    THEN [handles |-> h \ {axis}, xa |-> FALSE, status |-> "error", exc |-> "SDKError",
          calls |-> startup \o handler]
    ELSE IF failAt = "device"
    THEN [handles |-> h \ {axis}, xa |-> TRUE, status |-> "error", exc |-> "SDKError",
          calls |-> startup \o <<"KST201">> \o handler]
    ELSE [handles |-> h \cup {axis}, xa |-> TRUE, status |-> "ok", exc |-> "ok",
          calls |-> startup \o <<"KST201", "enable", "product", "position">>]

\* a limits check that accepts every target
InTravelRange_always(target) == TRUE

\* min_mm <= position_mm <= max_mm, with min_mm, max_mm = 0.0, 13.0
InTravelRange(target) == target # "out_of_range"

\* handle_move: auto-init, limits, position read, relative move
handle_move(h, xa, axisArg, target, failAt) ==
    LET axis == Lower(axisArg)
        i    == IF axis \in h
                THEN [handles |-> h, xa |-> xa, status |-> "ok", exc |-> "ok",
                      calls |-> <<>>]
                ELSE handle_init(h, xa, axisArg, failAt)
        fails(calls) == [i EXCEPT !.status = "error", !.exc = "RuntimeError",
                                  !.calls = i.calls \o calls]
    IN
    IF i.status = "error" THEN i
    ELSE IF ~InTravelRange(target) THEN fails(<<>>)
    ELSE IF failAt = "position"
    THEN fails(<<"get_position_counter", "get_position_counter_raised">>)
    ELSE IF target = "at_target"
    THEN [i EXCEPT !.calls = i.calls \o <<"get_position_counter">>]
    ELSE IF failAt = "move"
    THEN fails(<<"get_position_counter", "set_move_relative_params", "move_relative">>)
    ELSE [i EXCEPT !.calls = i.calls \o <<"get_position_counter",
                                          "set_move_relative_params", "move_relative">>]

\* handle_close on each axis of h: disconnect() and close() in one try block,
\* so close() is not reached when disconnect() raises
RECURSIVE CloseCalls(_, _)
CloseCalls(h, discFails) ==
    IF h = {} THEN <<>>
    ELSE LET a == CHOOSE x \in h : TRUE
         IN (IF discFails THEN <<"disconnect">> ELSE <<"disconnect", "close">>)
            \o CloseCalls(h \ {a}, discFails)

\* a shutdown that leaves the table as it is
handle_shutdown_keepsHandles(h) == h

handle_close(h, axisArg) == h \ {Lower(axisArg)}

handle_shutdown(h) == {}

clientVars == <<server_process, cl_pc, cl_cmd, cl_sent, cl_result, launched>>

\* send_response("ready") before the loop
Server_ready ==
    /\ srv_pc = "main"
    /\ IF stdin_open
       THEN /\ stdout' = stdout \o send_response("ready", 0)
            /\ srv_out' = srv_out \o send_response("ready", 0)
            /\ srv_pc' = "read"
       ELSE \* nobody holds the pipe: print raises before the try block
            /\ srv_pc' = "exited"
            /\ UNCHANGED <<stdout, srv_out>>
    /\ UNCHANGED <<clientVars, srv_calls, srv_cmd, srv_handles, srv_xa, stdin, stdin_open, srv_read>>

\* line = sys.stdin.readline(); if not line: break
Server_readline ==
    /\ srv_pc = "read"
    /\ \/ /\ stdin # <<>>
          /\ srv_cmd' = Head(stdin)
          /\ stdin' = Tail(stdin)
          /\ srv_read' = srv_read + 1
          /\ srv_pc' = "dispatch"
          /\ srv_calls' = <<>>
       \/ /\ stdin = <<>>
          /\ ~stdin_open
          /\ srv_pc' = "finally"
          /\ UNCHANGED <<srv_cmd, stdin, srv_read, srv_calls>>
    /\ UNCHANGED <<clientVars, srv_handles, srv_xa, stdin_open, stdout, srv_out>>

\* the try block of the loop: run the handler, print one response
Server_dispatch ==
    /\ srv_pc = "dispatch"
    /\ \E failAt \in ServerFailPoints :
        LET c == srv_cmd
            r == CASE c.command = "init" ->
                        handle_init(srv_handles, srv_xa, c.axis, failAt)
                   [] c.command = "move" ->
                        handle_move(srv_handles, srv_xa, c.axis, c.target, failAt)
                   [] c.command = "close" ->
                        [handles |-> handle_close(srv_handles, c.axis), xa |-> srv_xa,
                         status |-> "ok",
                         calls |-> CloseCalls(srv_handles \cap {Lower(c.axis)},
                                             failAt = "disconnect")]
                   [] c.command = "shutdown" ->
                        [handles |-> handle_shutdown(srv_handles), xa |-> srv_xa,
                         status |-> "ok",
                         calls |-> CloseCalls(srv_handles, failAt = "disconnect")]
                   [] OTHER ->
                        [handles |-> srv_handles, xa |-> srv_xa, status |-> "error",
                         calls |-> <<>>]
            lines == send_response(r.status, c.k)
        IN
        /\ srv_handles' = r.handles
        /\ srv_xa' = r.xa
        /\ srv_cmd' = NoCommand
        /\ srv_calls' = r.calls
        /\ IF stdin_open
           THEN /\ stdout' = stdout \o lines
                /\ srv_out' = srv_out \o lines
                /\ srv_pc' = IF c.command = "shutdown" THEN "finally" ELSE "read"
           ELSE \* the reader is gone: print raises, in the handler too
                /\ srv_pc' = "finally"
                /\ UNCHANGED <<stdout, srv_out>>
    /\ UNCHANGED <<clientVars, stdin, stdin_open, srv_read>>

\* SIGINT: KeyboardInterrupt wherever the server is
Server_KeyboardInterrupt ==
    /\ srv_pc \in {"main", "read", "dispatch"}
    /\ srv_pc' = IF srv_pc = "main" THEN "exited" ELSE "finally"
    /\ srv_cmd' = NoCommand
    /\ UNCHANGED <<clientVars, srv_calls, srv_handles, srv_xa, stdin, stdin_open, stdout, srv_read, srv_out>>

\* finally: handle_shutdown(); the process ends
Server_finally ==
    /\ srv_pc = "finally"
    /\ srv_handles' = handle_shutdown(srv_handles)
    /\ srv_pc' = "exited"
    /\ UNCHANGED <<clientVars, srv_calls, srv_cmd, srv_xa, stdin, stdin_open, stdout, srv_read, srv_out>>

\* the process is gone: kill(), or the Popen object dropped after it ended
NoServer ==
    /\ server_process' = FALSE
    /\ srv_pc' = "none"
    /\ srv_cmd' = NoCommand
    /\ srv_handles' = {}
    /\ srv_xa' = FALSE
    /\ stdin' = <<>>
    /\ stdout' = <<>>
    /\ srv_read' = 0
    /\ srv_out' = <<>>
    /\ srv_calls' = <<>>
    /\ cl_sent' = 0

\* a client that starts a server for every command
AlreadyStarted_never(proc) == FALSE

\* _start_server: if _server_process is not None: return
AlreadyStarted(proc) == proc

\* _send_command(command, *args): _start_server() first
Client_send_command ==
    /\ cl_pc = "idle"
    /\ \E command \in ClientCommands, axis \in AxisArgs, target \in Targets :
        cl_cmd' = [k |-> 0, command |-> command, axis |-> axis,
                   target |-> IF command = "move" THEN target ELSE "none"]
    /\ IF AlreadyStarted(server_process)
       THEN /\ cl_sent < MaxCommands
            /\ cl_pc' = "write"
            /\ UNCHANGED <<server_process, launched, srv_pc, srv_handles, srv_xa, stdin,
                           stdout, srv_read, srv_out, srv_calls, cl_sent, srv_cmd>>
       ELSE \* subprocess.Popen
            /\ launched < MaxLaunches
            /\ launched' = launched + 1
            /\ server_process' = TRUE
            /\ srv_pc' = "main"
            /\ cl_pc' = "wait_ready"
            /\ UNCHANGED <<srv_handles, srv_xa, stdin, stdout, srv_read, srv_out, srv_calls, cl_sent,
                           srv_cmd>>
    /\ UNCHANGED <<cl_result, stdin_open>>

\* ready_line = _server_process.stdout.readline()
Client_read_ready ==
    /\ cl_pc = "wait_ready"
    /\ \/ /\ stdout # <<>>
          /\ stdout' = Tail(stdout)
          /\ IF Head(stdout).status = "ready"
             THEN /\ cl_pc' = "write"
                  /\ UNCHANGED <<server_process, srv_pc, srv_cmd, srv_handles, srv_xa, stdin,
                                 srv_read, srv_out, srv_calls, cl_sent, cl_result, cl_cmd>>
             ELSE FALSE
       \/ \* end of file: the server ended without a ready line; _stop_server()
          /\ stdout = <<>>
          /\ srv_pc = "exited"
          /\ NoServer
          /\ cl_pc' = "idle"
          /\ cl_cmd' = NoCommand
          /\ cl_result' = [k |-> 0, for |-> 0, status |-> "RuntimeError"]
    /\ UNCHANGED <<launched, stdin_open>>

\* _server_process.stdin.write(json.dumps(cmd) + '\n'); flush()
Client_write ==
    /\ cl_pc = "write"
    /\ IF srv_pc = "exited"
       THEN \* BrokenPipeError: _server_process = None
            /\ NoServer
            /\ cl_pc' = "idle"
            /\ cl_cmd' = NoCommand
            /\ cl_result' = [k |-> 0, for |-> 0, status |-> "RuntimeError"]
       ELSE /\ stdin' = Append(stdin, [cl_cmd EXCEPT !.k = cl_sent + 1])
            /\ cl_sent' = cl_sent + 1
            /\ cl_pc' = "wait_response"
            /\ UNCHANGED <<server_process, cl_cmd, cl_result, srv_pc, srv_cmd, srv_handles,
                           srv_xa, stdout, srv_read, srv_out, srv_calls>>
    /\ UNCHANGED <<launched, stdin_open>>

\* response_line = _server_process.stdout.readline()
Client_read_response ==
    /\ cl_pc = "wait_response"
    /\ \/ /\ stdout # <<>>
          /\ stdout' = Tail(stdout)
          /\ cl_result' = [k |-> cl_sent, for |-> Head(stdout).for,
                           status |-> Head(stdout).status]
       \/ \* end of file: "Server terminated unexpectedly"
          /\ stdout = <<>>
          /\ srv_pc = "exited"
          /\ cl_result' = [k |-> cl_sent, for |-> cl_sent, status |-> "RuntimeError"]
          /\ UNCHANGED stdout
    /\ cl_pc' = "idle"
    /\ cl_cmd' = NoCommand
    /\ UNCHANGED <<server_process, cl_sent, launched, srv_pc, srv_cmd, srv_handles, srv_xa,
                   stdin, stdin_open, srv_read, srv_out, srv_calls>>

\* _stop_server(): write the shutdown command
Client_stop_server ==
    /\ cl_pc = "idle"
    /\ server_process
    /\ cl_pc' = "stopping"
    /\ IF srv_pc = "exited"
       THEN UNCHANGED <<stdin, cl_sent>>
       ELSE /\ stdin' = Append(stdin, [NoCommand EXCEPT !.k = cl_sent + 1,
                                                        !.command = "shutdown"])
            /\ cl_sent' = cl_sent + 1
    /\ UNCHANGED <<server_process, cl_cmd, cl_result, launched, srv_pc, srv_cmd, srv_handles,
                   srv_xa, stdin_open, stdout, srv_read, srv_out, srv_calls>>

\* _server_process.wait(timeout=5), kill() if that raised; _server_process = None
Client_stop_wait ==
    /\ cl_pc = "stopping"
    /\ NoServer
    /\ cl_pc' = "idle"
    /\ UNCHANGED <<cl_cmd, cl_result, launched, stdin_open>>

\* the client process ends without running its atexit handlers
Client_dies ==
    /\ cl_pc # "gone"
    /\ server_process
    /\ cl_pc' = "gone"
    /\ stdin_open' = FALSE
    /\ UNCHANGED <<server_process, cl_cmd, cl_sent, cl_result, launched, srv_pc, srv_cmd,
                   srv_handles, srv_xa, stdin, stdout, srv_read, srv_out, srv_calls>>

\* handle_init(axis) called in the server process, outside the command loop
call_handle_init ==
    /\ AllIdle
    /\ \E axisArg \in AxisArgs, failAt \in {"none", "startup", "device"} :
        LET r == handle_init(srv_handles, srv_xa, axisArg, failAt) IN
        /\ failAt = "startup" => ~srv_xa
        /\ srv_handles' = r.handles
        /\ srv_xa' = r.xa
        /\ srv_calls' = r.calls
        /\ log' = <<[thr |-> MainThread, kind |-> "call", name |-> "handle_init",
                     axis |-> Lower(axisArg)]>> \o MainEvents(r.calls)
        /\ result' = [result EXCEPT ![MainThread] = r.exc]
        /\ lastCall' = [op |-> "handle_init", axis |-> Lower(axisArg)]
    /\ overlap' = 0
    /\ second' = [second EXCEPT ![MainThread] = "none"]
    /\ UNCHANGED <<resourceState, pc, ret, popped, shutdown_lock, facade, scan_module, textVars, fsVars,
                   clientVars, srv_pc, srv_cmd, stdin, stdin_open, stdout, srv_read, srv_out>>

(* ------------------------------------------------------------------ *)
(* _read_probe_ini: text is a sequence of tokens, each a character or  *)
(* a whole identifier                                                  *)
(* ------------------------------------------------------------------ *)

NoFile == [exists |-> FALSE, lines |-> <<>>]

NoConfig == [res |-> "none", config |-> <<>>]

NoCalls == [res |-> "none", calls |-> <<>>, missing |-> {}, raising |-> {}]

NoHeaderFix == [res |-> "none", written |-> FALSE]

InitText ==
    /\ ini_file = NoFile
    /\ probe_config = NoConfig
    /\ probe_calls = NoCalls
    /\ header_in = NoHeaderFix
    /\ header_out = NoHeaderFix

\* c in s
Contains(s, c) == \E i \in 1..Len(s) : s[i] = c

\* s.find(c) + 1: the position of the first c in s, 0 if there is none
FirstIndex(s, c) ==
    IF Contains(s, c) THEN CHOOSE i \in 1..Len(s) : s[i] = c /\ ~Contains(SubSeq(s, 1, i - 1), c)
    ELSE 0

\* s.strip(cs): s without its leading and trailing characters of cs
StripChars(s, cs) ==
    LET keep == {i \in 1..Len(s) : s[i] \notin cs} IN
    IF keep = {} THEN <<>>
    ELSE SubSeq(s, CHOOSE i \in keep : \A j \in keep : i <= j,
                   CHOOSE i \in keep : \A j \in keep : j <= i)

\* s.strip()
Strip(s) == StripChars(s, {" "})

RECURSIVE Split(_, _)
\* s.split(c)
Split(s, c) ==
    LET i == FirstIndex(s, c) IN
    IF i = 0 THEN <<s>>
    ELSE <<SubSeq(s, 1, i - 1)>> \o Split(SubSeq(s, i + 1, Len(s)), c)

Digits == {"0", "1", "2", "3", "4", "5", "6", "7", "8", "9"}

IsDigits(s) == s # <<>> /\ \A i \in 1..Len(s) : s[i] \in Digits

\* a numeral without its sign
Unsigned(s) == IF s # <<>> /\ Head(s) \in {"+", "-"} THEN Tail(s) ELSE s

\* int(s) does not raise ValueError (decimal digits; no underscores in the model)
PyIntOk(s) == IsDigits(Unsigned(Strip(s)))

\* float(s) does not raise ValueError (decimal literals; no inf or nan in the model)
PyFloatOk(s) ==
    LET t    == Unsigned(Strip(s))
        e    == IF Contains(t, "e") /\ (~Contains(t, "E") \/ FirstIndex(t, "e") < FirstIndex(t, "E"))
                THEN FirstIndex(t, "e") ELSE FirstIndex(t, "E")
        mant == IF e = 0 THEN t ELSE SubSeq(t, 1, e - 1)
        dot  == FirstIndex(mant, ".")
        int  == IF dot = 0 THEN mant ELSE SubSeq(mant, 1, dot - 1)
        frac == IF dot = 0 THEN <<>> ELSE SubSeq(mant, dot + 1, Len(mant))
    IN /\ int # <<>> \/ frac # <<>>
       /\ int = <<>> \/ IsDigits(int)
       /\ frac = <<>> \/ IsDigits(frac)
       /\ e # 0 => IsDigits(Unsigned(SubSeq(t, e + 1, Len(t))))

\* a value of the configuration map: its Python type, its text, and for a
\* list the texts of its elements
Value(type, text, items) == [type |-> type, text |-> text, items |-> items]

\* the type conversion of one value: float, int, list of floats or str; ok is
\* FALSE when the list comprehension raises ValueError
Coerce(value) ==
    LET items == Split(StripChars(value, {"[", "]"}), ",")
        fallback ==
            IF Contains(value, "[") /\ Contains(value, "]")
            THEN IF \A i \in 1..Len(items) : PyFloatOk(items[i])
                 THEN [ok |-> TRUE,
                       val |-> Value("list", value, [i \in 1..Len(items) |-> Strip(items[i])])]
                 ELSE [ok |-> FALSE, val |-> Value("none", value, <<>>)]
            ELSE [ok |-> TRUE, val |-> Value("str", value, <<>>)]
    IN
    IF Contains(value, ".") \/ Contains(value, "e") \/ Contains(value, "E")
    THEN IF PyFloatOk(value) THEN [ok |-> TRUE, val |-> Value("float", value, <<>>)]
         ELSE fallback
    ELSE IF PyIntOk(value) THEN [ok |-> TRUE, val |-> Value("int", value, <<>>)]
         ELSE fallback

\* one line of the file: skipped, or a key and the text of its value with the
\* surrounding quotes removed
ParseLine(raw) ==
    LET line  == Strip(raw)
        eq    == FirstIndex(line, "=")
        key   == Strip(SubSeq(line, 1, eq - 1))
        value == Strip(SubSeq(line, eq + 1, Len(line)))
    IN
    IF line = <<>> \/ Head(line) = "#" \/ eq = 0
    THEN [skip |-> TRUE, key |-> <<>>, value |-> <<>>]
    ELSE [skip |-> FALSE, key |-> key,
          value |-> IF value # <<>> /\ Head(value) = "'" /\ value[Len(value)] = "'"
                    THEN SubSeq(value, 2, Len(value) - 1)
                    ELSE value]

\* a dict that keeps the first value of a key
SetKey_keepsFirst(config, key, val) ==
    IF \E i \in 1..Len(config) : config[i].key = key THEN config
    ELSE Append(config, [key |-> key, val |-> val])

\* config[key] = val
SetKey(config, key, val) ==
    IF \E i \in 1..Len(config) : config[i].key = key
    THEN [i \in 1..Len(config) |->
            IF config[i].key = key THEN [key |-> key, val |-> val] ELSE config[i]]
    ELSE Append(config, [key |-> key, val |-> val])

RECURSIVE ReadLines(_, _)
\* for line in f: ...; the map, or ValueError from the first line that raises
ReadLines(lines, config) ==
    IF lines = <<>> THEN [res |-> "ok", config |-> config]
    ELSE LET l == ParseLine(Head(lines))
             c == Coerce(l.value)
         IN IF l.skip THEN ReadLines(Tail(lines), config)
            ELSE IF ~c.ok THEN [res |-> "ValueError", config |-> <<>>]
            ELSE ReadLines(Tail(lines), SetKey(config, l.key, c.val))

\* _read_probe_ini(ini_path)
read_probe_ini(file) ==
    IF ~file.exists THEN [res |-> "FileNotFoundError", config |-> <<>>]
    ELSE ReadLines(file.lines, <<>>)

\* the characters a value of the model is written with
ValueChars == {"1", ".", "e", "[", "]", ",", "a", "'"}

\* the longest value text of the model
MaxValueLen == 5

RECURSIVE Texts(_, _)
\* the texts of at most n characters of cs
Texts(cs, n) ==
    IF n = 0 THEN {<<>>}
    ELSE LET shorter == Texts(cs, n - 1) IN
         shorter \cup {Append(q, c) : q \in {r \in shorter : Len(r) = n - 1}, c \in cs}

\* lines of a file: "k=<value>" for every value text, and lines that are
\* blank, a comment, without '=', padded with blanks, or with a second '='
IniLines ==
    {<<"k", "=">> \o v : v \in Texts(ValueChars, MaxValueLen)}
    \cup {<<>>, <<" ">>, <<"#", "k", "=", "1">>, <<" ", "#", "k", "=", "1">>, <<"k">>,
          <<"[", "k", "]">>, <<" ", "k", " ", "=", " ", "1", " ">>,
          <<"k", "=", "=", "1">>, <<"k", "=", "'", " ", "1", "'">>,
          <<"k", "=", "-", "1">>, <<"k", "=", "1", "E", "1">>,
          <<"k", "=", "[", "1", ",", " ", "1", ".", "1", "]">>}

\* _read_probe_ini called on the file
call_read_probe_ini ==
    /\ probe_config = NoConfig
    /\ probe_config' = read_probe_ini(ini_file)
    /\ UNCHANGED <<ini_file, probe_calls, header_in, header_out>>
    /\ UNCHANGED <<hwVars, scan_module, fsVars, serverVars>>

(* ------------------------------------------------------------------ *)
(* _apply_probe_config_to_probe                                        *)
(* ------------------------------------------------------------------ *)

\* ini key -> SDK setter, in the order of the dict (every converter is float)
property_mappings == <<
    [key |-> <<"FactorX">>,        setter |-> "set_factor_x"],
    [key |-> <<"FactorY">>,        setter |-> "set_factor_y"],
    [key |-> <<"OffsetX">>,        setter |-> "set_offset_x"],
    [key |-> <<"OffsetY">>,        setter |-> "set_offset_y"],
    [key |-> <<"RangeMaxX">>,      setter |-> "set_range_max_x"],
    [key |-> <<"RangeMaxY">>,      setter |-> "set_range_max_y"],
    [key |-> <<"ApoVoltage">>,     setter |-> "set_apo_volt_x"],
    [key |-> <<"FlybackTime">>,    setter |-> "set_flyback_time_sec"],
    [key |-> <<"CameraScalingX">>, setter |-> "set_camera_scaling_x"],
    [key |-> <<"CameraScalingY">>, setter |-> "set_camera_scaling_y"],
    [key |-> <<"CameraOffsetX">>,  setter |-> "set_camera_offset_x"],
    [key |-> <<"CameraOffsetY">>,  setter |-> "set_camera_offset_y"],
    [key |-> <<"CameraAngle">>,    setter |-> "set_camera_angle"] >>

\* ini_key in config
InConfig(config, key) == \E i \in 1..Len(config) : config[i].key = key

\* config[ini_key]
GetKey(config, key) == (CHOOSE i \in 1..Len(config) : config[i].key = key)

\* float(config[ini_key]) returns: a number, or a string float() accepts
\* (a list raises TypeError, any other string ValueError)
ConvertsToFloat(val) ==
    \/ val.type \in {"int", "float"}
    \/ val.type = "str" /\ PyFloatOk(val.text)

\* one setter applied to one key: no call when getattr raises AttributeError
\* or the converter raises; the call is made, and its exception swallowed,
\* when the setter raises
ApplyOne(config, key, setter, missing, raising) ==
    IF ~InConfig(config, key) \/ setter \in missing
       \/ ~ConvertsToFloat(config[GetKey(config, key)].val)
    THEN <<>>
    ELSE <<[setter |-> setter, arg |-> config[GetKey(config, key)].val.text,
            raised |-> setter \in raising]>>

RECURSIVE ApplyMappings(_, _, _, _)
\* for ini_key, (setter_name, converter) in property_mappings.items(): ...
ApplyMappings(maps, config, missing, raising) ==
    IF maps = <<>> THEN <<>>
    ELSE ApplyOne(config, Head(maps).key, Head(maps).setter, missing, raising)
         \o ApplyMappings(Tail(maps), config, missing, raising)

\* an apply that forgets the Y setter
ApoVoltageY_skipped(config, missing, raising) == <<>>

\* the special case after the loop: ApoVoltage is pushed to set_apo_volt_y too
ApoVoltageY(config, missing, raising) ==
    ApplyOne(config, <<"ApoVoltage">>, "set_apo_volt_y", missing, raising)

\* _apply_probe_config_to_probe(probe, config): the setter calls it makes on
\* a probe whose setters in missing do not exist and in raising raise
apply_probe_config_to_probe(config, missing, raising) ==
    ApplyMappings(property_mappings, config, missing, raising)
    \o ApoVoltageY(config, missing, raising)

\* the setters the model lets be missing or raising
BreakableSetters == {"set_factor_x", "set_apo_volt_x", "set_apo_volt_y"}

\* the lines a probe file of the model is made of: a mapped key with two
\* values, ApoVoltage, a key outside the mapping, a mapped key with a string
\* value, and a mapped key with a list value
ProbeLines == {
    <<"FactorX", "=", "1">>,
    <<"FactorX", " ", "=", " ", "2", ".", "5">>,
    <<"ApoVoltage", "=", "3">>,
    <<"DynamicFactorX", "=", "4">>,
    <<"OffsetX", "=", "a">>,
    <<"CameraAngle", "=", "[", "1", ",", "2", "]">> }

\* the longest probe file of the model, in lines
MaxIniLines == 4

RECURSIVE ProbeFiles(_)
\* the probe files of at most n lines
ProbeFiles(n) ==
    IF n = 0 THEN {<<>>}
    ELSE LET shorter == ProbeFiles(n - 1) IN
         shorter \cup {Append(q, l) : q \in {r \in shorter : Len(r) = n - 1}, l \in ProbeLines}

\* yOCTScannerInit's _apply_probe_config_to_probe(_probe, _probe_config)
call_apply_probe_config ==
    /\ probe_config.res = "ok"
    /\ probe_calls = NoCalls
    /\ \E missing \in SUBSET BreakableSetters :
       \E raising \in SUBSET (BreakableSetters \ missing) :
         probe_calls' = [res |-> "ok",
                         calls |-> apply_probe_config_to_probe(probe_config.config,
                                                               missing, raising),
                         missing |-> missing, raising |-> raising]
    /\ UNCHANGED <<ini_file, probe_config, header_in, header_out>>
    /\ UNCHANGED <<hwVars, scan_module, fsVars, serverVars>>

(* ------------------------------------------------------------------ *)
(* _fix_header_xml_for_matlab, attribute by attribute                  *)
(* ------------------------------------------------------------------ *)

\* x // y for non-negative operands
FloorDiv(x, y) == x \div y

\* apo_size: 25 unless Acquisition/ActualSizeOfApodization has a text that
\* int() accepts (kind "absent": no element or no text, "bad": int() raises)
ApoSize(apoText) == IF apoText.kind \in {"absent", "bad"} THEN 25 ELSE apoText.n

\* interf_size: the width of one B-scan, from the size of data/Spectral0.data
\* if that file exists and from raw_data.shape otherwise; raises is
\* "ZeroDivisionError" when the division by size_z raises
InterfSize(h) ==
    LET size_z  == h.shape[1]
        total_x == h.shape[2]
        size_y  == IF Len(h.shape) > 2 THEN h.shape[3] ELSE 1
    IN
    IF h.spectral0.exists
    THEN IF size_z = 0 THEN [raises |-> "ZeroDivisionError", n |-> 0]
         ELSE [raises |-> "no", n |-> FloorDiv(FloorDiv(h.spectral0.bytes, 2), size_z)]
    ELSE [raises |-> "no", n |-> IF size_y > 0 THEN FloorDiv(total_x, size_y) ELSE total_x]

\* final_size_y: the number of Spectral*.data files in data/, or the raw
\* data's B-scan count when there is none
FinalSizeY(h) ==
    LET size_y        == IF Len(h.shape) > 2 THEN h.shape[3] ELSE 1
        actual_bscans == (IF h.spectral0.exists THEN 1 ELSE 0) + h.moreSpectral
    IN IF actual_bscans > 0 THEN actual_bscans ELSE size_y

\* _fix_header_xml_for_matlab(outputFolder, raw_data, probe): the header it
\* leaves. written is FALSE when Header.xml is missing or an exception was
\* swallowed before tree.write; raw is the attributes every Raw DataFile
\* element gets, imageSizeX / imageSizeY the texts every Image/SizePixel
\* SizeX / SizeY element gets
FixHeader(h) ==
    IF ~h.present \/ ~h.wellFormed \/ InterfSize(h).raises # "no"
    THEN [res |-> "returned", written |-> FALSE]
    ELSE [res |-> "returned", written |-> TRUE,
          nRaw |-> h.nRaw,
          raw |-> [SizeZ |-> h.shape[1],
                   SizeX |-> InterfSize(h).n,
                   SizeY |-> FinalSizeY(h),
                   ApoRegionEnd0 |-> ApoSize(h.apoText),
                   ApoRegionStart0 |-> 0,
                   ScanRegionStart0 |-> ApoSize(h.apoText),
                   ScanRegionEnd0 |-> InterfSize(h).n],
          imageSizePixel |-> h.imageSizePixel,
          imageSizeX |-> InterfSize(h).n - ApoSize(h.apoText),
          imageSizeY |-> FinalSizeY(h)]

\* the largest number of spectral points of the model
MaxSizeZ == 2

\* the largest number of Raw DataFile elements, and of Spectral files besides
\* Spectral0.data, of the model
MaxElems == 2

\* raw_data.shape: (size_z, total_x) or (size_z, total_x, size_y)
Shapes ==
    {<<z, x>> : z \in 0..MaxSizeZ, x \in {0, 8, 60}}
    \cup {<<z, x, y>> : z \in 0..MaxSizeZ, x \in {0, 8, 60}, y \in 0..2}

\* the headers and folders _fix_header_xml_for_matlab is given
HeaderInputs ==
    [present : BOOLEAN, wellFormed : BOOLEAN,
     apoText : {[kind |-> "absent", n |-> 0], [kind |-> "bad", n |-> 0],
                [kind |-> "int", n |-> 0], [kind |-> "int", n |-> 3]},
     nRaw : 0..MaxElems,
     imageSizePixel : BOOLEAN,
     shape : Shapes,
     spectral0 : {[exists |-> FALSE, bytes |-> 0]}
                 \cup {[exists |-> TRUE, bytes |-> b] : b \in {0, 7, 16, 120}},
     moreSpectral : 0..MaxElems]

\* yOCTScan3DVolume's _fix_header_xml_for_matlab(outputFolder, raw_data, _probe)
call_fix_header_xml_for_matlab ==
    /\ header_out = NoHeaderFix
    /\ header_out' = FixHeader(header_in)
    /\ UNCHANGED <<ini_file, probe_config, probe_calls, header_in>>
    /\ UNCHANGED <<hwVars, scan_module, fsVars, serverVars>>

(* ------------------------------------------------------------------ *)
(* The specifications                                                  *)
(* ------------------------------------------------------------------ *)

vars == <<hwVars, scan_module, textVars, fsVars, serverVars>>

\* the hardware facades: scanner, stages, shutdown
Init ==
    /\ facade \in {"oct", "stage"}
    /\ scan_module = "oct"
    /\ InitHardware
    /\ InitFolder
    /\ InitServer
    /\ InitText

Next ==
    \/ yOCTScannerInit
    \/ oct_yOCTStageInit_1axis
    \/ oct_yOCTStageSetPosition_1axis
    \/ oct_yOCTStageClose_1axis
    \/ stg_yOCTStageInit_1axis
    \/ stg_yOCTStageSetPosition_1axis
    \/ stg_yOCTStageClose_1axis
    \/ stg_yOCTCloseAllStages
    \/ cleanup_yOCTCloseAll
    \/ \E t \in Threads :
        \/ Call_yOCTScannerClose(t)
        \/ yOCTScannerClose_lock(t)
        \/ yOCTScannerClose_stop(t)
        \/ yOCTScannerClose_release(t)
        \/ Call_yOCTCloseAll(t)
        \/ yOCTCloseAll_lock(t)
        \/ yOCTCloseAll_check(t)
        \/ yOCTCloseAll_popitem(t)
        \/ yOCTCloseAll_disconnect(t)
        \/ yOCTCloseAll_close(t)
        \/ yOCTCloseAll_scanner(t)
        \/ yOCTCloseAll_gc(t)

Spec == Init /\ [][Next]_vars

\* scans with each of the three modules
InitScan ==
    /\ facade = "oct"
    /\ scan_module \in ScanModules
    /\ InitHardware
    /\ InitFolder
    /\ InitServer
    /\ InitText

NextScan ==
    \/ yOCTScannerInit
    \/ oct_only_yOCTScannerInit
    \/ oct_only_yOCTScannerClose
    \/ yOCTScan3DVolume
    \/ env_makeFolder
    \/ env_removeFolder
    \/ \E t \in {MainThread} :
        \/ Call_yOCTScannerClose(t)
        \/ yOCTScannerClose_lock(t)
        \/ yOCTScannerClose_stop(t)
        \/ yOCTScannerClose_release(t)

SpecScan == InitScan /\ [][NextScan]_vars

\* _split_spectral_files_by_bscan applied to every folder of SplitFolders
InitSplit ==
    /\ facade = "oct"
    /\ scan_module \in ScanModules
    /\ InitHardware
    /\ outDir \in SplitFolders
    /\ failed = NoFailure
    /\ split_input = NoSplit
    /\ InitServer
    /\ InitText

NextSplit == call_split_spectral_files_by_bscan

SpecSplit == InitSplit /\ [][NextSplit]_vars

\* the stage server and its client
InitStageServer ==
    /\ facade = "oct"
    /\ scan_module = "oct"
    /\ InitHardware
    /\ InitFolder
    /\ InitServer
    /\ InitText

hwAll == <<hwVars, scan_module, textVars, fsVars>>

NextStageServer ==
    \/ Client_send_command /\ UNCHANGED hwAll
    \/ Client_read_ready /\ UNCHANGED hwAll
    \/ Client_write /\ UNCHANGED hwAll
    \/ Client_read_response /\ UNCHANGED hwAll
    \/ Client_stop_server /\ UNCHANGED hwAll
    \/ Client_stop_wait /\ UNCHANGED hwAll
    \/ Client_dies /\ UNCHANGED hwAll
    \/ Server_ready /\ UNCHANGED hwAll
    \/ Server_readline /\ UNCHANGED hwAll
    \/ Server_dispatch /\ UNCHANGED hwAll
    \/ Server_KeyboardInterrupt /\ UNCHANGED hwAll
    \/ Server_finally /\ UNCHANGED hwAll

SpecStageServer == InitStageServer /\ [][NextStageServer]_vars

\* the stage calls of the two facades and of the server, one call at a time
InitStages ==
    /\ facade \in {"oct", "stage"}
    /\ scan_module = "oct"
    /\ InitHardware
    /\ InitFolder
    /\ InitServer
    /\ InitText

NextStages ==
    \/ oct_yOCTStageInit_1axis
    \/ oct_yOCTStageSetPosition_1axis
    \/ oct_yOCTStageClose_1axis
    \/ stg_yOCTStageInit_1axis
    \/ stg_yOCTStageSetPosition_1axis
    \/ stg_yOCTStageClose_1axis
    \/ stg_yOCTCloseAllStages
    \/ call_handle_init

SpecStages == InitStages /\ [][NextStages]_vars

(* ------------------------------------------------------------------ *)
(* Reading the log                                                     *)
(* ------------------------------------------------------------------ *)

IsStep(i) == log[i].kind = "step"

\* entries i < j belong to the same call of the same thread
SameCall(i, j) ==
    /\ log[i].thr = log[j].thr
    /\ \A k \in (i + 1)..j : ~(log[k].kind = "call" /\ log[k].thr = log[i].thr)

\* the call entry i belongs to
CallOf(i) ==
    LET m == CHOOSE k \in 1..i :
                 /\ log[k].kind = "call" /\ log[k].thr = log[i].thr
                 /\ \A l \in (k + 1)..i : ~(log[l].kind = "call" /\ log[l].thr = log[i].thr)
    IN log[m].name

StageCloseSteps == {"disconnect", "close"}

ScannerCloseSteps == {"acquisition.stop", "scanner_release"}

\* the calls made on a device: everything logged but the release of the scanner objects
DeviceCalls(t, lg) ==
    SelectSeq(lg, LAMBDA e : e.kind = "step" /\ e.thr = t /\ e.name # "scanner_release")

CloseAllOps == {"oct_yOCTCloseAll", "cleanup_yOCTCloseAll"}

ScannerClosed ==
    /\ oct_system = 0
    /\ device = 0
    /\ probe = 0
    /\ processing = 0
    /\ ~scanner_initialized

(* ------------------------------------------------------------------ *)
(* Claims                                                              *)
(* ------------------------------------------------------------------ *)

\* C1: within one execution of yOCTCloseAll (either version) no scanner-close
\* step (acquisition stop, release of the scanner objects) precedes a
\* disconnect or close of a stage handle.
C1_StagesBeforeScanner ==
    \A i, j \in 1..Len(log) :
        (/\ i < j
         /\ IsStep(i) /\ IsStep(j)
         /\ SameCall(i, j)
         /\ CallOf(i) \in CloseAllOps)
        => ~(log[i].name \in ScannerCloseSteps /\ log[j].name \in StageCloseSteps)

\* a yOCTCloseAll that closed a stage handle and then released the scanner
C1_Witness ==
    \E i, j \in 1..Len(log) :
        /\ i < j
        /\ IsStep(i) /\ IsStep(j)
        /\ SameCall(i, j)
        /\ CallOf(i) \in CloseAllOps
        /\ log[i].name = "close"
        /\ log[j].name = "scanner_release"

\* C2: when thorlabs_imager_cleanup.yOCTCloseAll has returned, the stage
\* facade's handle table is empty and the scanner is closed.
C2_CleanupClosesAll ==
    (AllIdle /\ lastCall.op = "cleanup_yOCTCloseAll")
    => (stg_stage_handles = <<>> /\ ScannerClosed)

\* C3: a yOCTCloseAll called right after a yOCTCloseAll changes no resource,
\* makes no device call and returns normally: none of its steps changes a
\* resource or logs a device call, and when it has returned it has made none.
C3_Idempotent ==
    /\ [][\A t \in Threads :
            /\ (second[t] = "oct_yOCTCloseAll" /\ pc[t] # "idle" /\ pc'[t] # pc[t])
               => (resourceState' = resourceState
                   /\ DeviceCalls(t, log') = DeviceCalls(t, log))
            /\ (AllIdle /\ AllIdle' /\ second'[t] = "cleanup_yOCTCloseAll")
               => resourceState' = resourceState]_vars
    /\ [](\A t \in Threads :
            (pc[t] = "idle" /\ second[t] \in CloseAllOps)
            => (DeviceCalls(t, log) = <<>> /\ result[t] = "ok"))

\* a second yOCTCloseAll in a row is about to return, after a first one that
\* found the SDK started
C3_Witness ==
    \E t \in Threads :
        /\ second[t] = "oct_yOCTCloseAll"
        /\ pc[t] = "ca_gc"
        /\ oct_xa_started
        /\ oct_system # 0

(* ---- C4 ---- *)

StageInitOps == {"oct_yOCTStageInit_1axis", "stg_yOCTStageInit_1axis"}

StageSetPositionOps == {"oct_yOCTStageSetPosition_1axis", "stg_yOCTStageSetPosition_1axis"}

StageCloseOps == {"oct_yOCTStageClose_1axis", "stg_yOCTStageClose_1axis"}

\* the handle table of the facade in use
Handles == IF facade = "oct" THEN oct_stage_handles ELSE stg_stage_handles

\* this step is a whole call of one of `ops` on axis a, made while no call runs
StepIsCall(ops, a) ==
    /\ AllIdle /\ AllIdle'
    /\ lastCall'.op \in ops
    /\ lastCall'.axis = a

\* this step closes axis a: yOCTStageClose_1axis on it, yOCTCloseAllStages, the
\* coordinator, or the popitem of thorlabs_imager_oct.yOCTCloseAll
StepClosesAxis(a) ==
    \/ StepIsCall(StageCloseOps, a)
    \/ StepIsCall({"stg_yOCTCloseAllStages", "cleanup_yOCTCloseAll"}, "none")
    \/ \E t \in Threads : pc[t] = "ca_loop" /\ pc'[t] = "ca_disconnect" /\ popped'[t].axis = a

\* C4: an axis has an entry in the handle table exactly from a successful
\* yOCTStageInit_1axis until the next close of that axis: an entry appears only
\* by a successful init, an init that succeeds leaves one, an entry disappears
\* only by a close, a close leaves none; and a move on an axis with no entry
\* raises RuntimeError and makes no device call.
C4_HandleLifecycle ==
    [][\A a \in Axes :
        /\ (HasKey(Handles', a) /\ ~HasKey(Handles, a))
           => (StepIsCall(StageInitOps, a) /\ result'[MainThread] = "ok")
        /\ (StepIsCall(StageInitOps, a) /\ result'[MainThread] = "ok")
           => HasKey(Handles', a)
        /\ (HasKey(Handles, a) /\ ~HasKey(Handles', a))
           => StepClosesAxis(a)
        /\ StepIsCall(StageCloseOps, a)
           => ~HasKey(Handles', a)
        /\ (StepIsCall(StageSetPositionOps, a) /\ ~HasKey(Handles, a))
           => (result'[MainThread] = "RuntimeError" /\ DeviceCalls(MainThread, log') = <<>>)]_vars

(* ---- C9 ---- *)

\* thread t is inside a `with _shutdown_lock:` block
InLock(t) ==
    \/ pc[t] \in {"sc_stop", "sc_release", "ca_check", "ca_loop", "ca_disconnect",
                  "ca_close", "ca_scanner", "ca_gc"}
    \/ pc[t] = "sc_lock" /\ ret[t] # "idle"

\* how often `name` was called on the device of axis a since no call was running
CallsOn(name, a) ==
    Cardinality({i \in 1..Len(log) : IsStep(i) /\ log[i].name = name /\ log[i].axis = a})

\* C9: at most one thread is inside the _shutdown_lock section; between two
\* steps of one shutdown call no other thread makes a step; and every stage
\* handle gets at most one disconnect and one close, from one caller.
C9_LockGuarded ==
    /\ Cardinality({t \in Threads : InLock(t)}) <= 1
    /\ \A i, j \in 1..Len(log) :
          (i < j /\ IsStep(i) /\ IsStep(j) /\ SameCall(i, j))
          => \A k \in (i + 1)..(j - 1) : IsStep(k) => log[k].thr = log[i].thr
    /\ \A a \in Axes :
          /\ CallsOn("disconnect", a) <= 1
          /\ CallsOn("close", a) <= 1
          /\ \A i, j \in 1..Len(log) :
                (IsStep(i) /\ IsStep(j) /\ log[i].axis = a /\ log[j].axis = a)
                => log[i].thr = log[j].thr

\* one thread is closing a stage handle inside the lock while the other has
\* called a shutdown function and waits for the lock
C9_Witness ==
    \E t, u \in Threads :
        /\ t # u
        /\ pc[t] = "ca_close"
        /\ pc[u] \in {"ca_lock", "sc_lock"}
        /\ ret[u] = "idle"
        /\ shutdown_lock.owner = t

(* ---- C10 ---- *)

\* C10: when thorlabs_imager_oct.yOCTCloseAll has returned, the stage handle
\* table is empty, _oct_system, _device, _probe and _processing are None and
\* _scanner_initialized is False.
C10_CleansUpAfterFailure ==
    (AllIdle /\ lastCall.op = "oct_yOCTCloseAll")
    => (oct_stage_handles = <<>> /\ ScannerClosed)

(* ---- C5 ---- *)

\* C5 (original statement): once the 'ready' line is written, every command
\* line the server has read and is no longer handling has exactly one response
\* line.
C5_OneResponsePerCommand ==
    (srv_pc \in {"read", "finally", "exited"} /\ srv_out # <<>>)
    => Len(srv_out) = srv_read + 1

\* C5 (as amended): the server writes 'ready' before it reads a command; the
\* i-th line after it has status 'ok' or 'error' and answers the i-th command
\* read; no command gets two responses; a server that reads on has answered
\* every command it read, and only the command whose handling was cut short
\* is left without one; what _send_command reads after writing command k is
\* the response to command k.
C5_RequestResponse ==
    /\ srv_read > 0 => srv_out # <<>>
    /\ srv_out # <<>> => srv_out[1] = [status |-> "ready", for |-> 0]
    /\ \A i \in 2..Len(srv_out) :
          srv_out[i].status \in {"ok", "error"} /\ srv_out[i].for = i - 1
    /\ Len(srv_out) <= srv_read + 1
    /\ srv_read <= Len(srv_out)
    /\ srv_pc = "read" => Len(srv_out) = srv_read + 1
    /\ cl_result.status \in {"ok", "error"} => cl_result.for = cl_result.k

\* the client has read 'ok' for its second command after the server answered
\* the first with 'error'
C5_Witness ==
    /\ cl_result = [k |-> 2, for |-> 2, status |-> "ok"]
    /\ Len(srv_out) >= 3
    /\ srv_out[2].status = "error"

(* ---- C6 ---- *)

\* this step is a whole call of yOCTScan3DVolume
ScanStep == AllIdle /\ AllIdle' /\ lastCall'.op = "yOCTScan3DVolume"

\* C6: yOCTScan3DVolume on a scanner that is not initialised raises RuntimeError,
\* and on an initialised scanner with an existing outputFolder raises
\* FileExistsError; in both cases the folder is exactly as before and no SDK
\* call was made.
C6_PreconditionFailuresHaveNoEffect ==
    [][ScanStep =>
        /\ ~scanner_initialized
           => (/\ result'[MainThread] = "RuntimeError"
               /\ outDir' = outDir
               /\ DeviceCalls(MainThread, log') = <<>>)
        /\ (scanner_initialized /\ outDir.exists)
           => (/\ result'[MainThread] = "FileExistsError"
               /\ outDir' = outDir
               /\ DeviceCalls(MainThread, log') = <<>>)]_vars

\* the library's yOCTScan3DVolume has raised FileExistsError on somebody else's
\* folder, which is still there
C6_Witness ==
    /\ scan_module = "lib"
    /\ lastCall.op = "yOCTScan3DVolume"
    /\ result[MainThread] = "FileExistsError"
    /\ scanner_initialized
    /\ outDir = UserFolder

(* ---- C7 ---- *)

\* C7: after a yOCTScan3DVolume that got past its preconditions, if a step
\* raised the output folder is gone and the call raised what the step raised;
\* if none did, the folder holds Header.xml and data/.
C7_FailedScanLeavesNothing ==
    (lastCall.op = "yOCTScan3DVolume" /\ failed.step \notin {"precondition", "makedirs"})
    => IF failed.step # "none"
       THEN ~outDir.exists /\ result[MainThread] = failed.exc
       ELSE outDir.exists /\ outDir.header.present /\ outDir.data

(* ---- C8 ---- *)

RECURSIVE ConcatBScans(_, _, _)
\* Spectral<idx>.data .. Spectral<n-1>.data, concatenated
ConcatBScans(files, idx, n) ==
    IF idx >= n THEN <<>>
    ELSE ReadFile(files, Sp(idx)) \o ConcatBScans(files, idx + 1, n)

\* C8: when _split_spectral_files_by_bscan has returned for a folder with a
\* readable Header.xml and a Spectral0.data blob, and N >= 1 B-scans, the data
\* folder holds exactly Spectral0.data .. Spectral(N-1).data, all of one
\* length, and their concatenation is the blob.
C8_SplitLossless ==
    LET given == split_input.dir
        N     == SizeYOf(given.header, split_input.nYPixels)
    IN
    (/\ lastCall.op = "split_spectral_files_by_bscan"
     /\ result[MainThread] = "ok"
     /\ given.header.wellFormed /\ given.header.raw
     /\ Exists(given.files, Sp(0))
     /\ N >= 1)
    => /\ {f.name : f \in outDir.files} \ {Chirp} = {Sp(i) : i \in 0..(N - 1)}
       /\ \A i, j \in 0..(N - 1) :
             Len(ReadFile(outDir.files, Sp(i))) = Len(ReadFile(outDir.files, Sp(j)))
       /\ ConcatBScans(outDir.files, 0, N) = ReadFile(given.files, Sp(0))

(* ---- C11 ---- *)

\* the SDK calls yOCTStageInit_1axis of the facade in use makes in its try block
StageInitSteps == IF facade = "oct" THEN OctStageInitSteps ELSE StgStageInitSteps

\* a device call named n is in the log lg
Called(lg, n) == \E i \in 1..Len(lg) : lg[i].kind = "step" /\ lg[i].name = n

\* C11: when yOCTStageInit_1axis fails after the device object was created (a
\* call on the new device was made and the function raised), it has called
\* disconnect and then close on that device, it raises RuntimeError and the
\* table has no entry for the axis; and an axis gets an entry only from a call
\* that made every init call and returned normally.
C11_FailedInitLeavesNothing ==
    [][\A a \in Axes :
        StepIsCall(StageInitOps, a) =>
        /\ (Called(log', "enable") /\ result'[MainThread] # "ok")
           => /\ result'[MainThread] = "RuntimeError"
              /\ \E i, j \in 1..Len(log') :
                    /\ i < j
                    /\ log'[i].name = "new.disconnect"
                    /\ log'[j].name = "new.close"
                    /\ \A k \in 1..Len(log') : log'[k].name = "enable" => k < i
              /\ ~HasKey(Handles', a)
        /\ (HasKey(Handles', a) /\ ~HasKey(Handles, a))
           => /\ result'[MainThread] = "ok"
              /\ \A k \in 1..Len(StageInitSteps) : Called(log', StageInitSteps[k])
              /\ ~Called(log', "new.disconnect") /\ ~Called(log', "new.close")]_vars

\* yOCTStageInit_1axis of thorlabs_imager_stage has failed configuring the
\* velocity of an axis that another axis' handle is next to
C11_Witness ==
    /\ lastCall.op = "stg_yOCTStageInit_1axis"
    /\ result[MainThread] = "RuntimeError"
    /\ Called(log, "velocity") /\ ~Called(log, "position")
    /\ log[Len(log)].name = "new.close"
    /\ Len(stg_stage_handles) = 1
    /\ ~HasKey(stg_stage_handles, lastCall.axis)

(* ---- C12 ---- *)

\* C12: yOCTStageInit_1axis, and the server's handle_init, with an axis that
\* is not 'x', 'y' or 'z' in either case raises ValueError, makes no SDK call
\* (no startup, no device) and leaves the handle table and the SDK-started
\* flag as they were.
C12_InvalidAxisRejected ==
    [][\A a \in {Lower(x) : x \in AxisArgs} \ Axes :
        /\ StepIsCall(StageInitOps, a)
           => /\ result'[MainThread] = "ValueError"
              /\ resourceState' = resourceState
              /\ DeviceCalls(MainThread, log') = <<>>
        /\ StepIsCall({"handle_init"}, a)
           => /\ result'[MainThread] = "ValueError"
              /\ srv_handles' = srv_handles /\ srv_xa' = srv_xa
              /\ DeviceCalls(MainThread, log') = <<>>]_vars

\* yOCTStageInit_1axis('q') has raised ValueError on a facade that holds a
\* handle and has the SDK started
C12_Witness ==
    /\ lastCall.op \in StageInitOps
    /\ lastCall.axis \notin Axes
    /\ result[MainThread] = "ValueError"
    /\ Handles # <<>>
    /\ oct_xa_started

(* ---- C13 ---- *)

\* the names of the entries of kind k in lg
NamesOf(lg, k) ==
    LET sel == SelectSeq(lg, LAMBDA e : e.kind = k)
    IN [i \in 1..Len(sel) |-> sel[i].name]

\* C13: yOCTStageClose_1axis on an axis with a handle calls disconnect() and
\* then close() - close() also when disconnect() raised -, leaves the table
\* without the axis and otherwise as it was whether or not a call raised, and
\* raises RuntimeError exactly when one of them raised, after the entry was
\* deleted and with the error of the first call that raised; on an axis
\* without a handle it makes no call, changes nothing and returns normally.
C13_CloseAlwaysRemoves ==
    [][\A a \in Axes :
        StepIsCall(StageCloseOps, a) =>
        IF HasKey(Handles, a)
        THEN LET stmts  == NamesOf(log', "stmt")
                 raised == {stmts[i] : i \in 1..Len(stmts)}
                             \cap {"disconnect_raised", "close_raised"}
             IN
             /\ NamesOf(log', "step") = <<"disconnect", "close">>
             /\ Handles' = DelItem(Handles, a)
             /\ result'[MainThread] = IF raised = {} THEN "ok" ELSE "RuntimeError"
             /\ raised = {}
                => stmts = <<"del_handle">>
             /\ raised # {}
                => /\ stmts[Len(stmts) - 1] = "del_handle"
                   /\ stmts[Len(stmts)] = IF "disconnect_raised" \in raised
                                          THEN "raise_disconnect_error"
                                          ELSE "raise_close_error"
        ELSE /\ result'[MainThread] = "ok"
             /\ Len(log') = 1
             /\ resourceState' = resourceState]_vars

\* yOCTStageClose_1axis has raised after both disconnect() and close() raised,
\* and the other axis still has its handle
C13_Witness ==
    /\ lastCall.op \in StageCloseOps
    /\ result[MainThread] = "RuntimeError"
    /\ NamesOf(log, "stmt") = <<"disconnect_raised", "close_raised", "del_handle",
                                "raise_disconnect_error">>
    /\ Len(Handles) = 1
    /\ ~HasKey(Handles, lastCall.axis)

(* ---- C14 ---- *)

\* C14: thorlabs_imager_oct.yOCTScannerClose, from every state and on every
\* thread, ends without raising and with _scanner_initialized False and
\* _oct_system, _device, _probe, _processing all None; when there was a
\* device, acquisition.stop() was called in the same call before the objects
\* were released; and the scanner stays closed until the next yOCTScannerInit.
C14_ScannerCloseNeverRaises ==
    /\ [][\A t \in Threads :
            (pc[t] = "sc_release" /\ pc'[t] # "sc_release")
            => /\ ScannerClosed'
               /\ pc'[t] = "idle" => result'[t] = "ok"
               /\ log'[Len(log')] = Ev(t, "scanner_release")
               /\ device # 0
                  => \E i \in 1..(Len(log') - 1) :
                        /\ log'[i] = Ev(t, "acquisition.stop")
                        /\ \A k \in (i + 1)..Len(log') :
                              ~(log'[k].kind = "call" /\ log'[k].thr = t)]_vars
    /\ [](lastCall.op = "yOCTScannerClose" => ScannerClosed)

\* yOCTScannerClose has returned on a scanner that had a device: it stopped
\* the acquisition, released the objects and left the scanner closed
C14_Witness ==
    /\ AllIdle
    /\ lastCall.op = "yOCTScannerClose"
    /\ result[MainThread] = "ok"
    /\ Len(log) = 3
    /\ log[2] = Ev(MainThread, "acquisition.stop")
    /\ log[3] = Ev(MainThread, "scanner_release")
    /\ ScannerClosed

(* ---- C15 ---- *)

\* C15: yOCTScannerClose of thorlabs_imager_oct_only and of the imager library
\* raises nothing in any state - in particular on a second call after a
\* successful yOCTScannerInit and a yOCTScannerClose - and leaves
\* _scanner_initialized False.
C15_OnlyCloseNeverRaises ==
    lastCall.op = "oct_only_yOCTScannerClose"
    => /\ result[MainThread] = "ok"
       /\ ~scanner_initialized

(* ---- C16 ---- *)

\* C16: a thorlabs_imager_oct.yOCTScannerInit that found its probe file, called
\* while the scanner is initialised or an OCTSystem object is retained,
\* releases the scanner objects (after stopping the acquisition of a retained
\* device) before it calls OCTSystem(), and calls OCTSystem() whether or not
\* the stop inside the pre-close raised; without an existing scanner it only
\* calls OCTSystem().
C16_ClosesBeforeReinit ==
    [][(StepIsCall({"yOCTScannerInit"}, "none") /\ result'[MainThread] # "FileNotFoundError")
       => LET names == NamesOf(log', "step")
              held  == scanner_initialized \/ oct_system # 0
              \* position of the first entry named n, 0 if there is none
              IndexOf(ns, n) ==
                  IF \E i \in 1..Len(ns) : ns[i] = n
                  THEN CHOOSE i \in 1..Len(ns) :
                          ns[i] = n /\ \A k \in 1..(i - 1) : ns[k] # n
                  ELSE 0
          IN /\ names[Len(names)] = "OCTSystem()"
             /\ IndexOf(names, "OCTSystem()") = Len(names)
             /\ held => /\ IndexOf(names, "scanner_release") = Len(names) - 1
                        /\ device # 0 => IndexOf(names, "acquisition.stop") = 1
             /\ ~held => names = <<"OCTSystem()">>
             /\ oct_system' \in {0, NewId(oct_system)}]_vars

\* a re-initialisation of an initialised scanner went on to OCTSystem() although
\* the acquisition stop of the pre-close raised
C16_Witness ==
    /\ AllIdle
    /\ lastCall.op = "yOCTScannerInit"
    /\ second[MainThread] = "yOCTScannerInit"
    /\ NamesOf(log, "step") = <<"acquisition.stop", "scanner_release", "OCTSystem()">>
    /\ NamesOf(log, "stmt") = <<"stop_raised">>
    /\ scanner_initialized

(* ---- C17 ---- *)

\* C17: yOCTScannerInit of thorlabs_imager_oct_only and of the imager library,
\* called while the scanner is initialised, raises RuntimeError, creates no
\* OCTSystem and leaves the flag and the four scanner objects as they were.
C17_InitWhileInitialisedRejected ==
    [][(StepIsCall({"oct_only_yOCTScannerInit"}, "none") /\ scanner_initialized)
       => /\ result'[MainThread] = "RuntimeError"
          /\ scannerVars' = scannerVars
          /\ scanner_initialized'
          /\ ~Called(log', "OCTSystem()")]_vars

\* the library's yOCTScannerInit was called twice in a row: the second call
\* raised RuntimeError and the scanner is still initialised
C17_Witness ==
    /\ scan_module = "lib"
    /\ lastCall.op = "oct_only_yOCTScannerInit"
    /\ second[MainThread] = "oct_only_yOCTScannerInit"
    /\ result[MainThread] = "RuntimeError"
    /\ scanner_initialized
    /\ oct_system = 1 /\ device = 1 /\ probe = 1 /\ processing = 1

(* ---- C18 ---- *)

\* C18: thorlabs_imager_oct.yOCTScannerInit with a probe path that does not
\* exist raises FileNotFoundError, makes no call on the SDK or a device, does
\* not close an existing scanner, and leaves the flag and the four scanner
\* objects as they were.
C18_MissingProbeFileRejected ==
    [][(StepIsCall({"yOCTScannerInit"}, "none") /\ NamesOf(log', "arg") = <<"probe_missing">>)
       => /\ result'[MainThread] = "FileNotFoundError"
          /\ NamesOf(log', "step") = <<>>
          /\ scannerVars' = scannerVars]_vars

\* yOCTScannerInit with a missing probe file on an initialised scanner: it
\* raised FileNotFoundError and the scanner is still initialised
C18_Witness ==
    /\ AllIdle
    /\ lastCall.op = "yOCTScannerInit"
    /\ NamesOf(log, "arg") = <<"probe_missing">>
    /\ result[MainThread] = "FileNotFoundError"
    /\ scanner_initialized
    /\ oct_system # 0 /\ device # 0

(* ---- C19 ---- *)

\* C19: when the stage server has handled a move command whose target is
\* outside [0.0, 13.0] mm, it has made no set_move_relative_params and no
\* move_relative call and the response it wrote for the command has status
\* 'error'; when the target is within 1e-6 mm of the position it read, it has
\* made no such call either and the response it wrote has status 'ok'.
C19_ServerValidatesLimits ==
    [][(srv_pc = "dispatch" /\ srv_pc' # "dispatch" /\ srv_cmd.command = "move")
       => LET answered == srv_out' # srv_out
              reply    == srv_out'[Len(srv_out')]
              noMove   == \A i \in 1..Len(srv_calls') :
                             srv_calls'[i] \notin {"set_move_relative_params", "move_relative"}
              \* the last SDK call for the command was a position read that returned
              positionRead == /\ Len(srv_calls') > 0
                              /\ srv_calls'[Len(srv_calls')] = "get_position_counter"
          IN /\ srv_cmd.target = "out_of_range"
                => /\ noMove
                   /\ answered => (reply.status = "error" /\ reply.for = srv_cmd.k)
             /\ srv_cmd.target = "at_target"
                => /\ noMove
                   /\ (answered /\ positionRead)
                      => (reply.status = "ok" /\ reply.for = srv_cmd.k)]_vars

\* the server has answered a move outside the travel range, on an axis it had
\* to open first, with 'error': the device was opened and never moved
C19_Witness ==
    /\ cl_pc = "wait_response"
    /\ cl_cmd.command = "move"
    /\ cl_cmd.target = "out_of_range"
    /\ srv_pc = "read"
    /\ srv_out[Len(srv_out)] = [status |-> "error", for |-> cl_sent]
    /\ srv_calls = <<"XASDK.startup", "KST201", "enable", "product", "position">>

(* ---- C20 ---- *)

\* C20: yOCTStageSetPosition_1axis of thorlabs_imager_stage and of
\* thorlabs_imager_oct, called with a target outside the travel range, raises
\* and sends no move_absolute to the device.
C20_FacadeValidatesLimits ==
    [][\A a \in Axes :
        (StepIsCall(StageSetPositionOps, a) /\ NamesOf(log', "arg") = <<"out_of_range">>)
        => /\ result'[MainThread] # "ok"
           /\ ~Called(log', "move_absolute")]_vars

\* _read_probe_ini on every one-line file of the model, and on no file
InitIni ==
    /\ facade = "oct"
    /\ scan_module = "oct"
    /\ InitHardware
    /\ InitFolder
    /\ InitServer
    /\ ini_file \in {NoFile} \cup {[exists |-> TRUE, lines |-> <<l>>] : l \in IniLines}
    /\ probe_config = NoConfig
    /\ probe_calls = NoCalls
    /\ header_in = NoHeaderFix
    /\ header_out = NoHeaderFix

NextIni == call_read_probe_ini

SpecIni == InitIni /\ [][NextIni]_vars

\* the probe configuration read from a file and applied to a probe
InitProbe ==
    /\ facade = "oct"
    /\ scan_module = "oct"
    /\ InitHardware
    /\ InitFolder
    /\ InitServer
    /\ ini_file \in {[exists |-> TRUE, lines |-> f] : f \in ProbeFiles(MaxIniLines)}
    /\ probe_config = NoConfig
    /\ probe_calls = NoCalls
    /\ header_in = NoHeaderFix
    /\ header_out = NoHeaderFix

NextProbe ==
    \/ call_read_probe_ini
    \/ call_apply_probe_config

SpecProbe == InitProbe /\ [][NextProbe]_vars

\* _fix_header_xml_for_matlab on every header and folder of the model
InitHeader ==
    /\ facade = "oct"
    /\ scan_module = "oct"
    /\ InitHardware
    /\ InitFolder
    /\ InitServer
    /\ ini_file = NoFile
    /\ probe_config = NoConfig
    /\ probe_calls = NoCalls
    /\ header_in \in {h \in HeaderInputs : ~h.present => ~h.wellFormed}
    /\ header_out = NoHeaderFix

NextHeader == call_fix_header_xml_for_matlab

SpecHeader == InitHeader /\ [][NextHeader]_vars

(* ---- C21 ---- *)

C23_MappedKeysApplied ==
    LET lines   == ini_file.lines
        kv      == {i \in 1..Len(lines) : ~ParseLine(lines[i]).skip}
        cfg     == probe_config.config
        calls   == probe_calls.calls
        SettersOf(k) ==
            {property_mappings[j].setter :
                j \in {n \in 1..Len(property_mappings) : property_mappings[n].key = k}}
            \cup (IF k = <<"ApoVoltage">> THEN {"set_apo_volt_y"} ELSE {})
    IN
    /\ probe_config.res = "ok" =>
        /\ {cfg[i].key : i \in 1..Len(cfg)} = {ParseLine(lines[i]).key : i \in kv}
        /\ \A i \in kv :
              (\A j \in kv : j > i => ParseLine(lines[j]).key # ParseLine(lines[i]).key)
              => /\ InConfig(cfg, ParseLine(lines[i]).key)
                 /\ cfg[GetKey(cfg, ParseLine(lines[i]).key)].val
                      = Coerce(ParseLine(lines[i]).value).val
    /\ probe_calls.res # "none" =>
        /\ probe_calls.res = "ok"
        /\ \A c \in 1..Len(calls) :
              \E i \in 1..Len(cfg) :
                 /\ calls[c].setter \in SettersOf(cfg[i].key)
                 /\ calls[c].arg = cfg[i].val.text
        /\ \A i \in 1..Len(cfg) :
              \A st \in SettersOf(cfg[i].key) :
                 (cfg[i].val.type \in {"int", "float"} /\ st \notin probe_calls.missing)
                 => \E c \in 1..Len(calls) :
                       calls[c].setter = st /\ calls[c].arg = cfg[i].val.text

\* C23 witness: a file with FactorX twice, ApoVoltage and a key outside the
\* mapping was applied to a probe whose set_factor_x raises: the later FactorX
\* value was pushed, and ApoVoltage still reached both setters.
C23_Witness ==
    /\ probe_calls.res = "ok"
    /\ "set_factor_x" \in probe_calls.raising
    /\ probe_calls.missing = {}
    /\ InConfig(probe_config.config, <<"DynamicFactorX">>)
    /\ InConfig(probe_config.config, <<"ApoVoltage">>)
    /\ \E i, j \in 1..Len(ini_file.lines) :
          /\ i < j
          /\ ParseLine(ini_file.lines[i]).key = <<"FactorX">>
          /\ ParseLine(ini_file.lines[j]).key = <<"FactorX">>
          /\ ParseLine(ini_file.lines[i]).value # ParseLine(ini_file.lines[j]).value
          /\ \A k \in 1..Len(ini_file.lines) :
                ParseLine(ini_file.lines[k]).key = <<"FactorX">> => k <= j
          /\ \E c \in 1..Len(probe_calls.calls) :
                /\ probe_calls.calls[c].setter = "set_factor_x"
                /\ probe_calls.calls[c].raised
                /\ probe_calls.calls[c].arg = ParseLine(ini_file.lines[j]).value
    /\ {probe_calls.calls[c].setter : c \in 1..Len(probe_calls.calls)}
          = {"set_factor_x", "set_apo_volt_x", "set_apo_volt_y"}

(* ---- C25 ---- *)

\* C25: _fix_header_xml_for_matlab always returns, and when it has rewritten
\* Header.xml every Raw DataFile element has ApoRegionStart0 = 0,
\* ApoRegionEnd0 = ScanRegionStart0 = the apodization size
\* (ActualSizeOfApodization, 25 by default), ScanRegionEnd0 = SizeX = the
\* per-B-scan width computed from the size of Spectral0.data where that file
\* exists, SizeY = the number of Spectral*.data files where there are any,
\* and Image/SizePixel/SizeX = ScanRegionEnd0 - ScanRegionStart0, which is
\* not negative.
C25_HeaderFixed ==
    header_out.res # "none"
    => /\ header_out.res = "returned"
       /\ header_out.written
          => LET raw == header_out.raw
                 apo == IF header_in.apoText.kind = "int" THEN header_in.apoText.n
                        ELSE 25
             IN /\ raw.ApoRegionStart0 = 0
                /\ raw.ApoRegionEnd0 = apo
                /\ raw.ScanRegionStart0 = apo
                /\ raw.ScanRegionEnd0 = raw.SizeX
                /\ header_in.spectral0.exists
                   => raw.SizeX = (header_in.spectral0.bytes \div 2) \div header_in.shape[1]
                /\ (header_in.spectral0.exists \/ header_in.moreSpectral > 0)
                   => raw.SizeY = (IF header_in.spectral0.exists THEN 1 ELSE 0)
                                  + header_in.moreSpectral
                /\ header_out.imageSizePixel
                   => /\ header_out.imageSizeX
                           = raw.ScanRegionEnd0 - raw.ScanRegionStart0
                      /\ header_out.imageSizeX >= 0

(* ---- C26 ---- *)

\* C26: for a file of one line, _read_probe_ini raises FileNotFoundError when
\* the file is missing; returns an empty map for a blank line, a line starting
\* with '#' and a line without '='; and otherwise maps the key before the first
\* '=' to the value after it, quotes stripped: a float when it contains '.',
\* 'e' or 'E' and parses as a number, an int when it parses as an integer, a
\* list of floats when it is a bracketed comma-separated list of numbers, the
\* string itself in every other case - except that a bracketed list with an
\* element that is not a number raises ValueError.
C26_IniCoercion ==
    probe_config.res # "none"
    => IF ~ini_file.exists THEN probe_config.res = "FileNotFoundError"
       ELSE LET line  == Strip(ini_file.lines[1])
                eq    == FirstIndex(line, "=")
                raw   == Strip(SubSeq(line, eq + 1, Len(line)))
                v     == IF Len(raw) >= 1 /\ Head(raw) = "'" /\ raw[Len(raw)] = "'"
                         THEN SubSeq(raw, 2, Len(raw) - 1) ELSE raw
                bracketed == Len(v) >= 2 /\ Head(v) = "[" /\ v[Len(v)] = "]"
                elems == Split(SubSeq(v, 2, Len(v) - 1), ",")
                type  == IF (Contains(v, ".") \/ Contains(v, "e") \/ Contains(v, "E"))
                            /\ PyFloatOk(v) THEN "float"
                         ELSE IF PyIntOk(v) THEN "int"
                         ELSE IF bracketed
                              THEN IF \A i \in 1..Len(elems) : PyFloatOk(elems[i])
                                   THEN "list" ELSE "ValueError"
                         ELSE "str"
            IN IF line = <<>> \/ Head(line) = "#" \/ eq = 0
               THEN probe_config = [res |-> "ok", config |-> <<>>]
               ELSE IF type = "ValueError" THEN probe_config.res = "ValueError"
               ELSE /\ probe_config.res = "ok"
                    /\ Len(probe_config.config) = 1
                    /\ probe_config.config[1].key = Strip(SubSeq(line, 1, eq - 1))
                    /\ probe_config.config[1].val.type = type
                    /\ probe_config.config[1].val.text = v

====
